---- MODULE Spec2Model ----
\* Verification model of bgswe/cosmos: the two message buses
\* (microservices/message_bus.py with its cascading dispatch, cosmos/message_bus.py),
\* the Postgres unit of work with its event store, outbox and ledger
\* (cosmos/contrib/pg), the command decorator (cosmos/decorators.py) and the
\* stream consumer loop (cosmos/contrib/redis.py).
EXTENDS Integers, Sequences, FiniteSets, TLC

\* ---------------------------------------------------------------------------
\* Bounds
\* ---------------------------------------------------------------------------
MaxMsgs == 5        \* messages created during one bus.handle call

\* ---------------------------------------------------------------------------
\* Generic helpers
\* ---------------------------------------------------------------------------
Range(s) == {s[i] : i \in 1..Len(s)}

IsPrefix(s, t) == Len(s) <= Len(t) /\ \A i \in 1..Len(s) : s[i] = t[i]

None == "None"

\* ===========================================================================
\* PART 1 - MessageBus (microservices/message_bus.py, cosmos/message_bus.py)
\* ===========================================================================
EventStreams == {"A", "B", "C"}
HandlerIds == {"H1", "H2"}
CommandTypes == {"Cmd"}

\* What one invocation of a handler does: the aggregates seen by its unit of
\* work raise the listed events, then it returns, or it raises an exception.
\* A handler that raises has let an aggregate raise B before: the bus never
\* looks at the events of a handler that raised, so a failing handler without
\* events behaves the same.
Outs == {<< >>, <<"B">>, <<"A">>, <<"B", "C">>}
OutsBeforeRaise == {<<"B">>}
Behaviours ==
    {[raises |-> TRUE, out |-> o] : o \in OutsBeforeRaise}
    \cup {[raises |-> FALSE, out |-> o] : o \in Outs}

\* event_handlers: Dict[EventStream, List[EventHandler]]
Registrations == {<< >>, <<"H1">>, <<"H2">>, <<"H1", "H2">>}

\* Event.domain: the part of the stream name before the dot, a str.
EventDomain(stream) == [tag |-> "str", v |-> IF stream = "C" THEN "other" ELSE "test"]

\* What the constructor can be given as `domain`: a member of the Domain enum
\* (class Domain(Enum)), as annotated, or its value as a plain str; __init__
\* stores either unchecked.
DomainArgs == {"Domain", "str"}

\* isinstance(message, Event) / isinstance(message, Command)
IsEvent(m) == m.kind = "Event"
IsCommand(m) == m.kind = "Command"

VARIABLES
    \* --- bus configuration (fixed by MessageBus.__init__)
    event_handlers,     \* stream -> sequence of handler ids
    command_handlers,   \* command type -> handler id, or None when unregistered
    behaviour,          \* handler id -> Behaviours
    event_publish,      \* "none" | "ok" | "raise": the configured publish function
    domain_arg,         \* "Domain" | "str": the type of the domain argument
    \* --- state of one handle call
    seed,               \* the message passed to handle
    busPc,              \* "idle" | "loop" | "event" | "handlers" | "command" | "done" | "raised"
                        \* | "cosmos_event" | "cosmos_command" | "cosmos_end"
    queueOpen,          \* TRUE while seed_id is a key of self._queue
    queue,              \* self._queue[seed_id]
    message,            \* the message popped last
    message_sequence,   \* ids in the order they were popped
    hIdx,               \* position in the handler list of the current event
    nextId,             \* next fresh message id
    \* --- observations
    invoked,            \* handler id -> number of invocations
    ranFor,             \* message id -> handlers that returned for it, in order
    enqueued,           \* ids in the order they entered the queue
    producedBy,         \* message id -> id of the message whose handler raised it
    created,            \* message id -> the message with that id
    published,          \* ids passed to event_publish
    busResult,          \* return value of handle, set when busPc = "done"
    errors              \* the messages logged at error level

busCfg == <<event_handlers, command_handlers, behaviour, event_publish, domain_arg>>

busVars == <<event_handlers, command_handlers, behaviour, event_publish, domain_arg, busPc,
             queueOpen, queue, message, message_sequence, hIdx, nextId, invoked, ranFor,
             enqueued, producedBy, created, published, busResult, seed,
             errors>>

VARIABLES
    storeKind,      \* which event store / unit of work pair is wired
    dbEvents,       \* committed rows of table events, in insertion order
    dbOutbox,       \* committed ids of table message_outbox, in insertion order
    dbLedger,       \* committed ids of table processed_messages
    uowPc,          \* "idle" | "check" | "body" | "exit" | "finish"
    mode,           \* "direct": async with uow; "command": the decorator's wrapper
    cmdId,          \* message id of the command in the wrapper
    exc,            \* TRUE when the with-body ended in an exception
    connection,     \* TRUE while outbox/repository/ledger hold the connection
    txState,        \* transaction of the latest unit of work: "none" | "open" | "committed" | "rolled_back"
    txEvents,       \* event rows written in the open transaction
    txOutbox,       \* outbox ids written in the open transaction
    txLedger,       \* ledger ids written in the open transaction
    seen,           \* repository._seen: instance ids in the order they were marked
    aggs,           \* instance id -> aggregate object, or NoAgg
    nextEvent,      \* next fresh event id
    handlerCalls,   \* command id -> invocations of the decorated handler
    runs,           \* command id -> finished invocations of the wrapper
    leakedTx,       \* transactions that were neither committed nor rolled back
    lastExit,       \* how the latest unit of work ended
    lastWritten,    \* event ids the latest finished unit of work had written
    faulted,        \* TRUE once a handler, an INSERT, a COMMIT or the process failed
    appendFailed,   \* TRUE when an INSERT of _save failed in the latest unit of work
    unbound,        \* the latest call on a part that had no connection, and what it raised
    replayed,       \* version column of the rows of the latest _get, in the order replay got them
    stillPending    \* ids left in the _events lists of the seen aggregates when the latest commit returned

storeVars == <<storeKind, dbEvents, dbOutbox, dbLedger, uowPc, mode, cmdId, exc,
               connection, txState, txEvents, txOutbox, txLedger, seen, aggs,
               nextEvent, handlerCalls, runs, leakedTx, lastExit, lastWritten,
               faulted, appendFailed, unbound, replayed, stillPending>>

VARIABLES
    busKind,        \* which package's MessageBus is wired: "cosmos" | "microservices"
    brokerLen,      \* the stream holds the records 1..brokerLen, oldest first
    ackedDb,        \* committed consumer.acked_id of the consumer row
    consPc,         \* "top" | "entered" | "loaded" | "consumed" | "handled" | "acked" | "sleep" | "stopped"
    consumer,       \* acked_id of the in-memory Consumer object
    response,       \* record id returned by event_consume, 0 for None
    txAck,          \* acked_id written in the open transaction, NoAck when none
    failedRec,      \* record of this iteration for which a handler raised, 0 when none
    redeliver,      \* record dispatched before a stop that left its ack unpersisted
    redelivered,    \* TRUE once such a record has been read again
    everFailed,     \* TRUE once an iteration ended in an exception or a stop
    lastFailure,    \* what raised in the latest iteration of the loop
    retroactive,    \* the retroactive flag the consumer was configured with
    firstOffset,    \* the offset of the first xread of the consumer, NoAck before it
    slept           \* FALSE from an xread of the loop until its next asyncio.sleep(3)

\* --- concurrent units of work (part 4) ---------------------------------------
VARIABLES
    uniqueVersion,  \* whether events has a unique constraint on (stream_id, version)
    eventsTable,    \* the committed rows of events
    pool,           \* the connections of the pool that are free
    connTx,         \* per connection: the rows its open transaction has written
    made,           \* how many unit of work objects the container has built
    stack,          \* per unit of work: the connection its _stack holds, 0 for none
    binding,        \* per unit of work: the connection field of its three parts
    entered,        \* per unit of work: how many with blocks are open on it
    taskPc,         \* per task: where it is
    taskUow,        \* per task: the unit of work it was given, 0 before
    taskExc,        \* per task: TRUE when its body raised
    base            \* per task: the version of the aggregate it loaded

taskVars == <<uniqueVersion, eventsTable, pool, connTx, made, stack, binding,
              entered, taskPc, taskUow, taskExc, base>>

\* --- repository bookkeeping (part 5) ---------------------------------------------
VARIABLES
    repoKind,       \* which repository base class
    repoSeen,       \* repository._seen, in the order the aggregates were noted
    pending,        \* aggregate -> its _events list
    handed,         \* aggregates a get or get_list returned or a write accepted
    refused,        \* aggregates whose add, update or save raised
    nextPending,    \* next fresh event
    collected       \* outcome of the collect_events that was just iterated

repoVars == <<repoKind, repoSeen, pending, handed, refused, nextPending, collected>>

\* --- concurrent handle calls (part 6) -------------------------------------------
VARIABLES
    busQueue,       \* self._queue: seed id -> the list under that key, or no key
    callPc,         \* per call: "idle" | "handler" | "done" | "raised"
    callSeed,       \* per call: seed_id
    callSeq,        \* per call: message_sequence
    callMsg,        \* per call: the message its handler is running for
    callRepo,       \* per call: the repository of the unit of work of its handler
    heapSeen,       \* per repository object: its _seen list
    touched,        \* per call: the aggregates its running handler has loaded
    produced        \* number of events raised so far

callVars == <<busQueue, callPc, callSeed, callSeq, callMsg, callRepo, heapSeen,
              touched, produced>>

consVars == <<busKind, brokerLen, ackedDb, consPc, consumer, response, txAck,
              failedRec, redeliver, redelivered, everFailed, lastFailure,
              retroactive, firstOffset, slept>>

MsgIds == 1..(MaxMsgs + 2)

NoMessage == [message_id |-> 0, kind |-> "None", type |-> "None"]

\* What handle gave back: nothing (None) or the list of ids.
NoResult == [isNone |-> TRUE, ids |-> << >>]

SeedMessages ==
    {[message_id |-> 1, kind |-> "Event", type |-> s] : s \in EventStreams}
    \cup {[message_id |-> 1, kind |-> "Command", type |-> "Cmd"]}
    \cup {[message_id |-> 1, kind |-> "Other", type |-> "Other"]}

BusInit ==
    /\ event_handlers \in [EventStreams -> Registrations]
    /\ command_handlers \in [CommandTypes -> HandlerIds \cup {None}]
    /\ behaviour \in [HandlerIds -> Behaviours]
    /\ event_publish \in {"none", "ok", "raise"}
    /\ domain_arg \in DomainArgs
    /\ busPc = "idle"
    /\ queueOpen = FALSE
    /\ queue = << >>
    /\ message = NoMessage
    /\ message_sequence = << >>
    /\ hIdx = 0
    /\ nextId = 2
    /\ invoked = [h \in HandlerIds |-> 0]
    /\ ranFor = [i \in MsgIds |-> << >>]
    /\ enqueued = << >>
    /\ producedBy = [i \in MsgIds |-> 0]
    /\ created = [i \in MsgIds |-> NoMessage]
    /\ seed = NoMessage
    /\ published = << >>
    /\ busResult = NoResult
    /\ errors = {}

\* The events uow.collect_events() yields after a handler with output `out`
\* returned: fresh events, numbered from `first`, in the order they were raised.
Collected(out, first) ==
    [i \in 1..Len(out) |->
        [message_id |-> first + i - 1, kind |-> "Event", type |-> out[i]]]

Ids(msgs) == [i \in 1..Len(msgs) |-> msgs[i].message_id]

\* handle, lines 77-91: the seed message opens the queue of this call.
Handle(m) ==
    /\ busKind = "microservices"
    /\ busPc = "idle"
    /\ queueOpen' = TRUE
    /\ seed' = m
    /\ queue' = <<m>>
    /\ enqueued' = <<m.message_id>>
    /\ created' = [created EXCEPT ![m.message_id] = m]
    /\ message_sequence' = << >>
    /\ busPc' = "loop"
    /\ UNCHANGED <<storeVars, consVars, taskVars, repoVars, callVars, busCfg, errors,
                   message, hIdx, nextId, invoked, ranFor, producedBy,
                   published, busResult>>

\* Variant of the pop that takes the newest entry (list.pop() without index).
PopLast(q) == [head |-> q[Len(q)], rest |-> SubSeq(q, 1, Len(q) - 1)]

\* self._queue[seed_id].pop(0)
PopFirst(q) == [head |-> Head(q), rest |-> Tail(q)]

\* handle, lines 94-111: pop the head, record its id, dispatch on its type.
Dequeue ==
    /\ busPc = "loop"
    /\ Len(queue) > 0
    /\ LET p == PopFirst(queue) IN
        /\ queue' = p.rest
        /\ message' = p.head
        /\ message_sequence' = Append(message_sequence, p.head.message_id)
        /\ hIdx' = 1
        /\ busPc' = IF IsEvent(p.head) THEN "event"
                    ELSE IF IsCommand(p.head) THEN "command"
                    ELSE "raised"
        /\ errors' = IF IsEvent(p.head) \/ IsCommand(p.head) THEN errors
                     ELSE errors \cup {"message is not of type Event, nor Command"}
    /\ UNCHANGED <<storeVars, consVars, taskVars, repoVars, callVars, busCfg, seed, queueOpen,
                   nextId, invoked, ranFor, enqueued, producedBy, created,
                   published, busResult>>

\* handle, lines 113-119: the queue is empty, drop it and return the sequence.
Return ==
    /\ busPc = "loop"
    /\ Len(queue) = 0
    /\ queueOpen' = FALSE
    /\ queue' = << >>
    /\ busResult' = [isNone |-> FALSE, ids |-> message_sequence]
    /\ busPc' = "done"
    /\ UNCHANGED <<storeVars, consVars, taskVars, repoVars, callVars, busCfg, errors, seed, created,
                   message, message_sequence, hIdx, nextId, invoked, ranFor,
                   enqueued, producedBy, published>>

\* _handle_event, lines 138-145: `event.domain == self._domain and
\* self._event_publish`; the awaited publish call is not guarded by a try.
\* MessageBus._domain, line 60.
BusDomain == [tag |-> domain_arg, v |-> "test"]

ShouldPublish(m) == EventDomain(m.type) = BusDomain /\ event_publish # "none"

PublishStep ==
    /\ busPc = "event"
    /\ IF ShouldPublish(message)
       THEN /\ published' = Append(published, message.message_id)
            /\ busPc' = IF event_publish = "raise" THEN "raised" ELSE "handlers"
       ELSE /\ published' = published
            /\ busPc' = "handlers"
    /\ UNCHANGED <<storeVars, consVars, taskVars, repoVars, callVars, busCfg, errors, seed, queueOpen,
                   queue, message, message_sequence, hIdx, nextId, invoked,
                   ranFor, enqueued, producedBy, created, busResult>>

\* The except block of _handle_event binds event_id=event.id; Message
\* (microservices/domain.py) declares message_id and no id, so evaluating the
\* log context raises AttributeError out of the except block.
EventHasIdAttribute == FALSE

\* self._queue[seed_id].extend(uow.collect_events())
Extend(q, msgs) == q \o msgs

\* Variant in which the events of a handler that raised are collected as well.
CollectedAnyway(out, first) == Collected(out, first)

\* What reaches the queue when the handler raised: the exception leaves the try
\* block at `await handler(...)`, the extend on the next line does not run.
CollectedAfterRaise(out, first) == << >>

\* _handle_event, lines 147-167: one iteration of the handler loop.
RunEventHandler ==
    /\ busPc = "handlers"
    /\ hIdx <= Len(event_handlers[message.type])
    /\ LET h == event_handlers[message.type][hIdx]
           b == behaviour[h] IN
        /\ invoked' = [invoked EXCEPT ![h] = @ + 1]
        /\ IF b.raises
           THEN /\ busPc' = IF EventHasIdAttribute THEN "handlers" ELSE "raised"
                /\ errors' = IF EventHasIdAttribute
                             THEN errors \cup {"raised exception during event handling"}
                             ELSE errors
                /\ hIdx' = hIdx + 1
                /\ LET new == CollectedAfterRaise(b.out, nextId) IN
                    /\ nextId + Len(new) - 1 <= MaxMsgs
                    /\ queue' = Extend(queue, new)
                    /\ enqueued' = enqueued \o Ids(new)
                    /\ producedBy' = [i \in MsgIds |->
                          IF i \in Range(Ids(new)) THEN message.message_id
                          ELSE producedBy[i]]
                    /\ created' = [i \in MsgIds |->
                          IF i \in Range(Ids(new)) THEN new[i - nextId + 1]
                          ELSE created[i]]
                    /\ nextId' = nextId + Len(new)
                /\ UNCHANGED ranFor
           ELSE /\ nextId + Len(b.out) - 1 <= MaxMsgs
                /\ LET new == Collected(b.out, nextId) IN
                    /\ queue' = Extend(queue, new)
                    /\ enqueued' = enqueued \o Ids(new)
                    /\ producedBy' = [i \in MsgIds |->
                          IF i \in Range(Ids(new)) THEN message.message_id
                          ELSE producedBy[i]]
                    /\ created' = [i \in MsgIds |->
                          IF i \in Range(Ids(new)) THEN new[i - nextId + 1]
                          ELSE created[i]]
                /\ nextId' = nextId + Len(b.out)
                /\ ranFor' = [ranFor EXCEPT ![message.message_id] = Append(@, h)]
                /\ hIdx' = hIdx + 1
                /\ busPc' = "handlers"
                /\ UNCHANGED errors
    /\ UNCHANGED <<storeVars, consVars, taskVars, repoVars, callVars, busCfg, seed, queueOpen,
                   message, message_sequence, published, busResult>>

\* _handle_event: the for loop is exhausted, control returns to handle's loop.
EventHandled ==
    /\ busPc = "handlers"
    /\ hIdx > Len(event_handlers[message.type])
    /\ busPc' = "loop"
    /\ UNCHANGED <<storeVars, consVars, taskVars, repoVars, callVars, busCfg, errors, seed, queueOpen,
                   queue, message, message_sequence, hIdx, nextId, invoked,
                   ranFor, enqueued, producedBy, created, published, busResult>>

\* Variant of the except clauses of _handle_command that re-raises.
CommandErrorRaised(after) == "raised"

\* `except Exception` (microservices) / `except KeyError` and `except Exception`
\* (cosmos) in _handle_command: the error is logged and the method goes on to
\* the statement after the try.
CommandErrorLogged(after) == after

\* _handle_command, lines 179-194: the lookup, the handler call and the
\* extend share one try; `except Exception` logs and returns.
HandleCommand ==
    /\ busPc = "command"
    /\ LET h == command_handlers[message.type] IN
        IF h = None \/ behaviour[h].raises
        THEN /\ invoked' = IF h = None THEN invoked
                           ELSE [invoked EXCEPT ![h] = @ + 1]
             /\ errors' = errors \cup {"raised exception during command handling"}
             /\ busPc' = CommandErrorLogged("loop")
             /\ LET new == IF h = None THEN << >>
                           ELSE CollectedAfterRaise(behaviour[h].out, nextId) IN
                 /\ nextId + Len(new) - 1 <= MaxMsgs
                 /\ queue' = Extend(queue, new)
                 /\ enqueued' = enqueued \o Ids(new)
                 /\ producedBy' = [i \in MsgIds |->
                       IF i \in Range(Ids(new)) THEN message.message_id
                       ELSE producedBy[i]]
                 /\ created' = [i \in MsgIds |->
                       IF i \in Range(Ids(new)) THEN new[i - nextId + 1]
                       ELSE created[i]]
                 /\ nextId' = nextId + Len(new)
             /\ UNCHANGED ranFor
        ELSE /\ nextId + Len(behaviour[h].out) - 1 <= MaxMsgs
             /\ invoked' = [invoked EXCEPT ![h] = @ + 1]
             /\ LET new == Collected(behaviour[h].out, nextId) IN
                 /\ queue' = Extend(queue, new)
                 /\ enqueued' = enqueued \o Ids(new)
                 /\ producedBy' = [i \in MsgIds |->
                       IF i \in Range(Ids(new)) THEN message.message_id
                       ELSE producedBy[i]]
                 /\ created' = [i \in MsgIds |->
                       IF i \in Range(Ids(new)) THEN new[i - nextId + 1]
                       ELSE created[i]]
             /\ nextId' = nextId + Len(behaviour[h].out)
             /\ ranFor' = [ranFor EXCEPT ![message.message_id] = Append(@, h)]
             /\ busPc' = "loop"
             /\ UNCHANGED errors
    /\ UNCHANGED <<storeVars, consVars, taskVars, repoVars, callVars, busCfg, seed, queueOpen,
                   message, message_sequence, hIdx, published, busResult>>

\* --- MessageBus of cosmos/message_bus.py ----------------------------------------
\* handle, lines 64-90: dispatch on the type of the message; there is no queue
\* and no return statement.
CosmosHandle(m) ==
    /\ busKind = "cosmos"
    /\ busPc = "idle"
    /\ seed' = m
    /\ message' = m
    /\ created' = [created EXCEPT ![m.message_id] = m]
    /\ hIdx' = 1
    /\ busPc' = IF IsEvent(m) THEN "cosmos_event"
                ELSE IF IsCommand(m) THEN "cosmos_command"
                ELSE "raised"
    /\ errors' = IF IsEvent(m) \/ IsCommand(m) THEN errors
                 ELSE errors \cup {"message is not of type Event, nor Command"}
    /\ UNCHANGED <<storeVars, consVars, taskVars, repoVars, callVars, busCfg, queueOpen, queue,
                   message_sequence, nextId, invoked, ranFor, enqueued,
                   producedBy, published, busResult>>

\* _handle_event, lines 106-123, one iteration: a unit of work is made, the
\* handler is awaited, an exception is logged and the loop continues. What the
\* handler's aggregates raised stays with its unit of work.
CosmosRunEventHandler ==
    /\ busPc = "cosmos_event"
    /\ hIdx <= Len(event_handlers[message.type])
    /\ LET h == event_handlers[message.type][hIdx] IN
        /\ invoked' = [invoked EXCEPT ![h] = @ + 1]
        /\ ranFor' = IF behaviour[h].raises THEN ranFor
                      ELSE [ranFor EXCEPT ![message.message_id] = Append(@, h)]
        /\ errors' = IF behaviour[h].raises
                     THEN errors \cup {"raised exception during event handling"}
                     ELSE errors
    /\ hIdx' = hIdx + 1
    /\ UNCHANGED <<storeVars, consVars, taskVars, repoVars, callVars, busCfg, seed, queueOpen, queue, message,
                   message_sequence, nextId, enqueued, producedBy, created,
                   published, busResult, busPc>>

\* _handle_command, lines 135-159: a missing handler is logged and the name
\* `handler` stays unbound, the second try then fails and is logged as well; a
\* handler that raises is logged.
CosmosHandleCommand ==
    /\ busPc = "cosmos_command"
    /\ LET h == command_handlers[message.type] IN
        /\ invoked' = IF h = None THEN invoked ELSE [invoked EXCEPT ![h] = @ + 1]
        /\ ranFor' = IF h = None \/ behaviour[h].raises THEN ranFor
                      ELSE [ranFor EXCEPT ![message.message_id] = Append(@, h)]
        /\ errors' = errors
                \cup (IF h = None
                      THEN {"command doesn't have a configured handler"} ELSE {})
                \cup (IF h = None \/ behaviour[h].raises
                      THEN {"error handling command"} ELSE {})
        /\ busPc' = IF h = None \/ behaviour[h].raises
                    THEN CommandErrorLogged("cosmos_end") ELSE "cosmos_end"
    /\ UNCHANGED <<storeVars, consVars, taskVars, repoVars, callVars, busCfg, seed, queueOpen, queue, message,
                   message_sequence, hIdx, nextId, enqueued, producedBy, created,
                   published, busResult>>

\* _handle_event: the for loop is exhausted.
CosmosEventHandled ==
    /\ busPc = "cosmos_event"
    /\ hIdx > Len(event_handlers[message.type])
    /\ busPc' = "cosmos_end"
    /\ UNCHANGED <<storeVars, consVars, taskVars, repoVars, callVars, busCfg, errors, seed, queueOpen, queue, message,
                   message_sequence, hIdx, nextId, invoked, ranFor, enqueued,
                   producedBy, created, published, busResult>>

\* handle, line 90: the function ends, the caller gets None.
CosmosReturn ==
    /\ busPc = "cosmos_end"
    /\ busResult' = NoResult
    /\ busPc' = "done"
    /\ UNCHANGED <<storeVars, consVars, taskVars, repoVars, callVars, busCfg, errors, seed, queueOpen, queue, message,
                   message_sequence, hIdx, nextId, invoked, ranFor, enqueued,
                   producedBy, created, published>>

BusNext ==
    \/ \E m \in SeedMessages : Handle(m)
    \/ Dequeue
    \/ Return
    \/ PublishStep
    \/ RunEventHandler
    \/ EventHandled
    \/ HandleCommand
    \/ \E m \in SeedMessages : CosmosHandle(m)
    \/ CosmosRunEventHandler
    \/ CosmosHandleCommand
    \/ CosmosEventHandled
    \/ CosmosReturn

\* ---------------------------------------------------------------------------
\* Properties of the bus
\* ---------------------------------------------------------------------------
Returns(h, out) == behaviour[h] = [raises |-> FALSE, out |-> out]

\* Handler H1 for A raises exactly one B, handler H2 is the handler of B.
CausalPairConfig ==
    /\ seed.kind = "Event" /\ seed.type = "A"
    /\ event_handlers["A"] = <<"H1">> /\ Returns("H1", <<"B">>)
    /\ event_handlers["B"] = <<"H2">> /\ Returns("H2", << >>)

\* C1: handle(m) returns the ids of the processed messages in dequeue order,
\* starting with id(m); with H1 (for A) raising one B and H2 registered for B,
\* handle(A) returns [id(A), id(B)] and H2 has been invoked exactly once.
C1_CausalOrder ==
    busPc = "done" =>
        /\ ~busResult.isNone
        /\ Len(busResult.ids) >= 1 /\ busResult.ids[1] = seed.message_id
        /\ CausalPairConfig =>
              /\ busResult.ids = <<seed.message_id, 2>>
              /\ created[2].type = "B" /\ producedBy[2] = seed.message_id
              /\ invoked["H2"] = 1

\* The same statement for the bus of microservices/message_bus.py alone.
C1_CausalOrderQueued == busKind = "microservices" => C1_CausalOrder

C1_WitnessQueued ==
    /\ busKind = "microservices"
    /\ busPc = "done" /\ CausalPairConfig /\ Len(busResult.ids) = 2

\* Number of events the handlers hs raise when each of them returns.
RECURSIVE TotalOut(_)
TotalOut(hs) == IF hs = << >> THEN 0
                ELSE Len(behaviour[Head(hs)].out) + TotalOut(Tail(hs))

HandlersOf(m) ==
    IF m.kind = "Event" THEN event_handlers[m.type]
    ELSE IF m.kind = "Command" /\ command_handlers[m.type] # None
         THEN <<command_handlers[m.type]>>
         ELSE << >>

\* The messages whose processing is over: all popped ones but the current one.
Finished ==
    IF busPc \in {"loop", "done"} THEN Range(message_sequence)
    ELSE Range(message_sequence) \ {message.message_id}

\* C2: the queue of a handle call is strictly FIFO (the ids popped so far,
\* followed by the ids waiting, are the ids in the order they were enqueued),
\* and when the next message is dequeued every handler registered for the
\* previous head has run and everything it collected is behind in the queue.
C2_Fifo ==
    /\ queueOpen => enqueued = message_sequence \o Ids(queue)
    /\ IsPrefix(message_sequence, enqueued)
    /\ \A i \in Finished :
          (created[i].kind = "Event" /\ busPc # "raised") =>
              /\ ranFor[i] = event_handlers[created[i].type]
              /\ Cardinality({j \in Range(enqueued) : producedBy[j] = i})
                    = TotalOut(ranFor[i])

C2_Witness ==
    /\ busPc = "loop"
    /\ seed.kind = "Event"
    /\ Len(event_handlers[seed.type]) = 2
    /\ Len(message_sequence) >= 3
    /\ Len(queue) >= 2
    /\ \E j \in Range(Ids(queue)) : producedBy[j] # seed.message_id

\* C38: on the bus that keeps a queue, the events a message put in the queue
\* are exactly the events of the handlers that returned for it: nothing a
\* handler raised before it failed is enqueued, so nothing of it is dispatched.
C38_FailedHandlerEventsDropped ==
    busKind = "microservices" =>
        /\ \A i \in MsgIds :
              Cardinality({j \in Range(enqueued) : producedBy[j] = i})
                  = TotalOut(ranFor[i])
        /\ \A j \in Range(message_sequence) :
              j = seed.message_id \/ producedBy[j] \in Range(message_sequence)

C38_Witness ==
    /\ busKind = "microservices"
    /\ busPc = "done"
    /\ IsCommand(seed)
    /\ \E h \in HandlerIds :
          /\ command_handlers[seed.type] = h
          /\ behaviour[h].raises /\ behaviour[h].out # << >>
          /\ invoked[h] = 1

\* C39: a handle call on the bus that keeps a queue, seeded with an event or a
\* command, ends by returning: its queue is empty and dropped, and the sequence
\* it returns holds the seed and every event that was produced, each once.
C39_HandleReturnsAll ==
    (busKind = "microservices" /\ busPc \in {"done", "raised"}
        /\ (IsEvent(seed) \/ IsCommand(seed))) =>
        /\ busPc = "done"
        /\ queue = << >> /\ ~queueOpen
        /\ ~busResult.isNone
        /\ Range(busResult.ids) = {seed.message_id} \cup {i \in MsgIds : producedBy[i] # 0}
        /\ \A j, k \in 1..Len(busResult.ids) :
              busResult.ids[j] = busResult.ids[k] => j = k

\* C40: when a handle call is over, by a return or by an exception, seed_id is
\* no key of self._queue any more.
C40_NoQueueEntryAfterHandle ==
    busPc \in {"done", "raised"} => ~queueOpen

\* The messages this handle call has taken up, in order.
Processed == IF queueOpen \/ message_sequence # << >> THEN message_sequence
             ELSE IF seed = NoMessage THEN << >> ELSE <<seed.message_id>>

\* Number of handlers registered for the messages ids, summed.
RECURSIVE RegisteredFor(_)
RegisteredFor(ids) ==
    IF ids = << >> THEN 0
    ELSE Len(HandlersOf(created[Head(ids)])) + RegisteredFor(Tail(ids))

\* What ended the handle call that is in state "raised".
RaisedBy ==
    IF busPc # "raised" THEN "nothing"
    ELSE IF ~IsEvent(message) THEN "type"
    ELSE IF hIdx = 1 THEN "publish"
    ELSE "handler"

\* C11: an exception of an event handler never ends handle, and when handle has
\* returned, every handler registered for every message it took up was invoked,
\* the ones after a failing handler included.
C11_HandlerFailureContained ==
    /\ RaisedBy # "handler"
    /\ busPc = "done" =>
          invoked["H1"] + invoked["H2"] = RegisteredFor(Processed)

\* C12: handle does not return normally when the handler of the command it was
\* given raised.
C12_CommandFailurePropagates ==
    (busPc = "done" /\ IsCommand(seed)) =>
        LET h == command_handlers[seed.type] IN
        IF h = None THEN TRUE ELSE ~behaviour[h].raises

\* C19: a publish function that raises never ends handle: the handlers of the
\* event run and the queue is worked off.
C19_PublishBestEffort == RaisedBy # "publish"

\* The events of this call whose publish decision has been taken.
PastPublish ==
    {i \in Range(message_sequence) :
        /\ created[i].kind = "Event"
        /\ ~(busPc = "event" /\ message.message_id = i)}

\* C20: an event is passed to the publish function exactly when its domain is
\* the domain of the bus and a publish function is configured, then once and
\* before its first handler; an event of another domain is never passed.
C20_PublishOwnDomainOnce ==
    /\ \A i \in PastPublish :
          /\ (i \in Range(published)) <=>
                (EventDomain(created[i].type).v = BusDomain.v /\ event_publish # "none")
          /\ Cardinality({k \in 1..Len(published) : published[k] = i}) <= 1
    /\ busPc = "event" => ranFor[message.message_id] = << >>

\* ===========================================================================
\* PART 2 - unit of work, event store, outbox, ledger, command decorator
\*          (cosmos/contrib/pg, cosmos/repository.py, cosmos/decorators.py)
\* ===========================================================================
MaxEvents == 2      \* events raised by handlers over a run
MaxInst == 2        \* aggregate instances alive inside one unit of work
MaxRuns == 2        \* times the command pipeline is invoked per message id
MaxLeaked == 1      \* transactions left open that are tracked
MaxSeen == 2        \* entries of repository._seen inside one unit of work

StreamIds == {"s1"}
CommandIds == {"c1"}
\* The events a handler can raise: type and payload.
EventChoices == {[type |-> "Set", amount |-> 1], [type |-> "Add", amount |-> 2]}
InstIds == 1..MaxInst

\* The two event stores of the repository:
\*   "AsyncPG"  - AsyncPGEventStoreRepository under AsyncUnitOfWorkPostgres
\*   "Postgres" - PostgresEventStore under PostgresUnitOfWork (outbox, ledger)
StoreKinds == {"AsyncPG", "Postgres"}

\* A column the INSERT statement does not list.
Null == 0 - 99

\* getattr(aggregate_root, "_version", -1): the version before any event.
NoVersion == 0 - 1

NoAgg == [stream_id |-> "None", version |-> NoVersion, state |-> 0,
          events |-> << >>, loaded |-> FALSE]

NoCall == [op |-> "none", raised |-> "none"]

StoreInit ==
    /\ storeKind \in StoreKinds
    /\ dbEvents = << >>
    /\ dbOutbox = << >>
    /\ dbLedger = {}
    /\ uowPc = "idle"
    /\ mode = "direct"
    /\ cmdId = "None"
    /\ exc = FALSE
    /\ connection = FALSE
    /\ txState = "none"
    /\ txEvents = << >>
    /\ txOutbox = << >>
    /\ txLedger = {}
    /\ seen = << >>
    /\ aggs = [i \in InstIds |-> NoAgg]
    /\ nextEvent = 1
    /\ handlerCalls = [c \in CommandIds |-> 0]
    /\ runs = [c \in CommandIds |-> 0]
    /\ leakedTx = 0
    /\ lastExit = "none"
    /\ lastWritten = {}
    /\ faulted = FALSE
    /\ appendFailed = FALSE
    /\ unbound = NoCall
    /\ replayed = << >>
    /\ stillPending = << >>

\* --- aggregate model ---------------------------------------------------------
\* The transition function of the aggregate type (mutate): Set overwrites the
\* state, Add increments it.
Mutate(state, event) ==
    IF event.type = "Set" THEN event.amount ELSE state + event.amount

ZeroState == 0

\* replay: `for event in event_stream: aggregate_root.mutate(event=event)`
RECURSIVE Fold(_, _)
Fold(state, events) ==
    IF events = << >> THEN state
    ELSE Fold(Mutate(state, Head(events)), Tail(events))

\* Variant of replay that raises every replayed event anew on the instance.
ReplayRaisesEvents(stream, events) ==
    [stream_id |-> stream, version |-> Len(events) - 1,
     state |-> Fold(ZeroState, events), events |-> events, loaded |-> TRUE]

\* replay(events): a fresh zero-state instance folded over the events; its
\* version is the position of the last event, its pending buffer is empty.
Replay(stream, events) ==
    [stream_id |-> stream, version |-> Len(events) - 1,
     state |-> Fold(ZeroState, events), events |-> << >>, loaded |-> TRUE]

\* --- codecs --------------------------------------------------------------------
\* AsyncPG: model_dump() without message_id, json_encode of the rest.
JsonEncode(fields) == [json |-> fields]
JsonLoads(text) == text.json

AsyncPGRow(stream, event, version) ==
    [id |-> event.message_id, stream_id |-> stream, type |-> event.type,
     version |-> version, data |-> JsonEncode([amount |-> event.amount])]

\* EVENT_TYPES[record["type"]](message_id=record["id"], **json.loads(record["data"]))
AsyncPGHydrate(row) ==
    [message_id |-> row.id, type |-> row.type, amount |-> JsonLoads(row.data).amount]

\* DomainEvent.serialize(): a JSON text with the type under meta and the fields
\* under data.
Serialize(event) ==
    [json |-> [meta |-> [type |-> event.type],
               data |-> [message_id |-> event.message_id, amount |-> event.amount]]]

\* PostgresEventStore._save: the INSERT lists created, id, stream_id, type and
\* data; the version counter is computed and not written.
PostgresRow(stream, event, version) ==
    [id |-> event.message_id, stream_id |-> stream, type |-> event.type,
     version |-> Null, data |-> Serialize(event)]

\* event_cls = get_event_class(type=event_json["meta"]["type"]);
\* event_cls.model_validate(event_json["data"])
PostgresHydrate(row) ==
    LET event_json == JsonLoads(row.data) IN
    [message_id |-> event_json.data.message_id, type |-> event_json.meta.type,
     amount |-> event_json.data.amount]

RowOf(stream, event, version) ==
    IF storeKind = "AsyncPG" THEN AsyncPGRow(stream, event, version)
    ELSE PostgresRow(stream, event, version)

Hydrate(row) ==
    IF storeKind = "AsyncPG" THEN AsyncPGHydrate(row) ELSE PostgresHydrate(row)

\* --- tables ----------------------------------------------------------------------
\* What the open transaction reads: committed rows followed by its own.
VisibleEvents == dbEvents \o txEvents
VisibleOutbox == dbOutbox \o txOutbox

RowIds(rows) == {rows[i].id : i \in 1..Len(rows)}

\* Rows of one stream in the order they were inserted.
StreamRows(rows, stream) ==
    LET Test(r) == r.stream_id = stream IN SelectSeq(rows, Test)

Orderings(n) ==
    {f \in [1..n -> 1..n] : \A i, j \in 1..n : f[i] = f[j] => i = j}

\* `SELECT ... FROM events WHERE stream_id = $1` has no ORDER BY: the rows come
\* back in an order the database chooses.
Query(rows) ==
    {[i \in 1..Len(rows) |-> rows[f[i]]] : f \in Orderings(Len(rows))}

HydrateAll(rows) == [i \in 1..Len(rows) |-> Hydrate(rows[i])]

FreeInst == {i \in InstIds : aggs[i] = NoAgg}
LiveInst == {i \in InstIds : aggs[i] # NoAgg}

\* Variant of _mark_seen that records nothing.
MarkSeenNever(s, i) == s

\* _mark_seen: self._seen.append(aggregate)
MarkSeen(s, i) == Append(s, i)

\* --- the command decorator's calls on the ledger ------------------------------------
\* PostgresProcessedMessageRepository declares
\*   async def is_processed(self, message_id) / async def mark_processed(self, message_id)
LedgerParameters == {"message_id"}

\* cosmos.domain.Message declares one field, message_id.
MessageFields == {"message_id"}

\* inner_func calls both with the keyword `id`, bound to message.id, and without
\* await.
WrapperReads == "id"
WrapperKeywords == {"id"}
WrapperAwaits == FALSE

\* Outcome of calling an async method: binding an unexpected keyword raises
\* TypeError at the call; a call that is not awaited yields a coroutine object
\* whose body never runs; an awaited call runs the body.
CallAsync(keywords, parameters, awaited) ==
    IF ~(keywords \subseteq parameters) THEN "TypeError"
    ELSE IF ~awaited THEN "coroutine"
    ELSE "result"

\* uow.processed_messages.<method>(id=message.id): the argument is evaluated
\* first, reading a field the model does not declare raises AttributeError.
LedgerCall ==
    IF WrapperReads \notin MessageFields THEN "AttributeError"
    ELSE CallAsync(WrapperKeywords, LedgerParameters, WrapperAwaits)

\* --- unit of work -----------------------------------------------------------------
\* __aenter__: acquire a connection, begin a transaction, hand the connection to
\* outbox, repository and ledger. m is how the body uses the unit of work.
UowEnter(m, c) ==
    /\ uowPc = "idle"
    /\ m = "command" => (storeKind = "Postgres" /\ c \in CommandIds /\ runs[c] < MaxRuns)
    /\ m = "direct" => c = "None"
    /\ mode' = m
    /\ cmdId' = c
    /\ exc' = FALSE
    /\ connection' = TRUE
    /\ txState' = "open"
    /\ txEvents' = << >>
    /\ txOutbox' = << >>
    /\ txLedger' = {}
    /\ seen' = << >>
    /\ aggs' = [i \in InstIds |-> NoAgg]
    /\ uowPc' = IF m = "command" THEN "check" ELSE "body"
    /\ appendFailed' = FALSE
    /\ unbound' = NoCall
    /\ replayed' = << >>
    /\ stillPending' = << >>
    /\ UNCHANGED <<busVars, consVars, taskVars, repoVars, callVars, storeKind, faulted, dbEvents, dbOutbox,
                   dbLedger, nextEvent,
                   handlerCalls, runs, leakedTx, lastExit, lastWritten>>

\* inner_func, lines 43-48: `if uow.processed_messages.is_processed(id=message.id): return`
\* and, when the test is false, the call of the decorated handler.
PipelineCheck ==
    /\ uowPc = "check"
    /\ LET r == LedgerCall IN
        IF r \in {"AttributeError", "TypeError"}
        THEN /\ exc' = TRUE /\ uowPc' = "exit"
             /\ UNCHANGED handlerCalls
        ELSE IF r = "coroutine" \/ cmdId \in (dbLedger \cup txLedger)
        THEN /\ exc' = FALSE /\ uowPc' = "exit"
             /\ UNCHANGED handlerCalls
        ELSE /\ exc' = FALSE /\ uowPc' = "body"
             /\ handlerCalls' = [handlerCalls EXCEPT ![cmdId] = @ + 1]
    /\ UNCHANGED <<busVars, consVars, taskVars, repoVars, callVars, storeKind, stillPending, unbound, replayed, faulted, appendFailed, dbEvents, dbOutbox,
                   dbLedger, mode, cmdId,
                   connection, txState, txEvents, txOutbox, txLedger, seen, aggs,
                   nextEvent, runs, leakedTx, lastExit, lastWritten>>

\* The handler creates a new aggregate through its factory: no version yet, an
\* empty pending buffer. Its id is new, no stream of that id exists.
Create(stream) ==
    /\ uowPc = "body"
    /\ FreeInst # {}
    /\ StreamRows(VisibleEvents, stream) = << >>
    /\ \A i \in LiveInst : aggs[i].stream_id # stream
    /\ LET i == CHOOSE j \in FreeInst : \A k \in FreeInst : j <= k IN
        aggs' = [aggs EXCEPT ![i] =
                    [stream_id |-> stream, version |-> NoVersion,
                     state |-> ZeroState, events |-> << >>, loaded |-> FALSE]]
    /\ UNCHANGED <<busVars, consVars, taskVars, repoVars, callVars, storeKind, stillPending, unbound, replayed, faulted, appendFailed, dbEvents, dbOutbox,
                   dbLedger, uowPc, mode, cmdId,
                   exc, connection, txState, txEvents, txOutbox, txLedger, seen,
                   nextEvent, handlerCalls, runs, leakedTx, lastExit, lastWritten>>

\* AggregateRepository.get with _get of the wired store: query the stream, hydrate
\* the rows, replay. PostgresEventStore returns None for an empty result, the
\* AsyncPG store replays the empty list; get marks what it got as seen.
Get(stream) ==
    /\ uowPc = "body"
    /\ connection
    /\ LET rows == StreamRows(VisibleEvents, stream) IN
        IF storeKind = "Postgres" /\ rows = << >>
        THEN UNCHANGED <<aggs, seen, replayed>>
        ELSE /\ FreeInst # {}
             /\ Len(seen) < MaxSeen
             /\ \E result \in Query(rows) :
                   LET i == CHOOSE j \in FreeInst : \A k \in FreeInst : j <= k IN
                   /\ aggs' = [aggs EXCEPT ![i] = Replay(stream, HydrateAll(result))]
                   /\ seen' = MarkSeen(seen, i)
                   /\ replayed' = [k \in 1..Len(result) |-> result[k].version]
    /\ UNCHANGED <<busVars, consVars, taskVars, repoVars, callVars, storeKind, stillPending, unbound, faulted, appendFailed, dbEvents, dbOutbox,
                   dbLedger, uowPc, mode, cmdId,
                   exc, connection, txState, txEvents, txOutbox, txLedger,
                   nextEvent, handlerCalls, runs, leakedTx, lastExit, lastWritten>>

\* Variant of new_event that puts the event in front of the list.
InsertFirst(events, event) == <<event>> \o events

\* self._events.append(event)
AppendEvent(events, event) == Append(events, event)

\* AggregateRoot.new_event: self._events.append(event)
NewEvent(i, choice) ==
    /\ uowPc = "body"
    /\ i \in LiveInst
    /\ nextEvent <= MaxEvents
    /\ aggs' = [aggs EXCEPT ![i].events =
                   AppendEvent(@, [message_id |-> nextEvent, type |-> choice.type,
                                    amount |-> choice.amount])]
    /\ nextEvent' = nextEvent + 1
    /\ UNCHANGED <<busVars, consVars, taskVars, repoVars, callVars, storeKind, stillPending, unbound, replayed, faulted, appendFailed, dbEvents, dbOutbox,
                   dbLedger, uowPc, mode, cmdId,
                   exc, connection, txState, txEvents, txOutbox, txLedger, seen,
                   handlerCalls, runs, leakedTx, lastExit, lastWritten>>

\* The rows _save inserts for the pending events, numbered from the version
\* after current_version.
RowsToInsert(agg) ==
    [k \in 1..Len(agg.events) |-> RowOf(agg.stream_id, agg.events[k], agg.version + k)]

\* How many leading inserts can succeed: events.id is the primary key, an id
\* that is already in the table (or earlier in the same batch) is refused.
RECURSIVE InsertableEvents(_, _)
InsertableEvents(rows, taken) ==
    IF rows = << >> \/ Head(rows).id \in taken THEN 0
    ELSE 1 + InsertableEvents(Tail(rows), taken \cup {Head(rows).id})

\* AggregateRepository.save: _save inserts one row per pending event, then the
\* aggregate is marked seen. An insert can fail (constraint, connection); the
\* rows before it stay in the transaction and the exception leaves the body.
Save(i) ==
    /\ uowPc = "body"
    /\ connection
    /\ i \in LiveInst
    /\ LET rows == RowsToInsert(aggs[i])
           most == InsertableEvents(rows, RowIds(VisibleEvents)) IN
        \E n \in 0..most :
            /\ txEvents' = txEvents \o SubSeq(rows, 1, n)
            /\ IF n = Len(rows)
               THEN /\ Len(seen) < MaxSeen
                    /\ seen' = MarkSeen(seen, i)
                    /\ UNCHANGED <<uowPc, exc>>
               ELSE /\ uowPc' = "exit"
                    /\ exc' = TRUE
                    /\ UNCHANGED seen
            /\ faulted' = (faulted \/ n < Len(rows))
            /\ appendFailed' = (appendFailed \/ n < Len(rows))
    /\ UNCHANGED <<busVars, consVars, taskVars, repoVars, callVars, storeKind, stillPending, unbound, replayed, dbEvents, dbOutbox,
                   dbLedger, mode, cmdId,
                   connection, txState, txOutbox, txLedger, aggs, nextEvent,
                   handlerCalls, runs, leakedTx, lastExit, lastWritten>>

\* The body of the with statement raises.
HandlerRaise ==
    /\ uowPc = "body"
    /\ exc' = TRUE
    /\ uowPc' = "exit"
    /\ faulted' = TRUE
    /\ UNCHANGED <<busVars, consVars, taskVars, repoVars, callVars, storeKind, stillPending, unbound, replayed, appendFailed, dbEvents, dbOutbox,
                   dbLedger, mode, cmdId,
                   connection, txState, txEvents, txOutbox, txLedger, seen, aggs,
                   nextEvent, handlerCalls, runs, leakedTx, lastExit, lastWritten>>

\* The body of the with statement ends; in the wrapper the handler has returned
\* and line 51, `uow.processed_messages.mark_processed(id=message.id)`, follows.
HandlerReturn ==
    /\ uowPc = "body"
    /\ LET r == IF mode = "command"
                THEN LedgerCall
                ELSE "none" IN
        /\ exc' = (r \in {"AttributeError", "TypeError"})
        /\ txLedger' = IF r = "result" THEN txLedger \cup {cmdId} ELSE txLedger
    /\ uowPc' = "exit"
    /\ UNCHANGED <<busVars, consVars, taskVars, repoVars, callVars, storeKind, stillPending, unbound, replayed, faulted, appendFailed, dbEvents, dbOutbox,
                   dbLedger, mode, cmdId,
                   connection, txState, txEvents, txOutbox, seen, aggs,
                   nextEvent, handlerCalls, runs, leakedTx, lastExit, lastWritten>>

\* [event for agg in self.repository.seen for event in agg.events]
RECURSIVE PendingOfSeen(_)
PendingOfSeen(s) ==
    IF s = << >> THEN << >>
    ELSE aggs[Head(s)].events \o PendingOfSeen(Tail(s))

\* message_outbox.id is the primary key.
RECURSIVE InsertableOutbox(_, _)
InsertableOutbox(events, taken) ==
    IF events = << >> \/ Head(events).message_id \in taken THEN 0
    ELSE 1 + InsertableOutbox(Tail(events), taken \cup {Head(events).message_id})

EventIds(events) == [k \in 1..Len(events) |-> events[k].message_id]

\* PostgresUnitOfWork.__aexit__, lines 93-95: whatever exc_type is, the pending
\* events of the seen aggregates go to the outbox, one INSERT each. When an
\* INSERT raises, __aexit__ is left at this line: lines 97-109 (unbinding, reset,
\* the exit of the transaction and of the connection) do not run.
\* AsyncUnitOfWorkPostgres.__aexit__ has no outbox.
ExitSend ==
    /\ uowPc = "exit"
    /\ IF storeKind = "AsyncPG"
       THEN /\ uowPc' = "finish"
            /\ UNCHANGED <<txOutbox, txState, leakedTx, lastExit, lastWritten,
                           runs, txEvents>>
       ELSE LET events == PendingOfSeen(seen)
                most == InsertableOutbox(events, Range(VisibleOutbox)) IN
            \E n \in 0..most :
                /\ txOutbox' = txOutbox \o SubSeq(EventIds(events), 1, n)
                /\ IF n = Len(events)
                   THEN /\ uowPc' = "finish"
                        /\ UNCHANGED <<txState, leakedTx, lastExit, lastWritten,
                                       runs, txEvents>>
                   ELSE /\ leakedTx < MaxLeaked
                        /\ uowPc' = "idle"
                        /\ txState' = "open"
                        /\ leakedTx' = leakedTx + 1
                        /\ lastExit' = "send_failed"
                        /\ lastWritten' = RowIds(txEvents)
                        /\ runs' = IF mode = "command"
                                   THEN [runs EXCEPT ![cmdId] = @ + 1] ELSE runs
                        /\ UNCHANGED txEvents
    /\ faulted' = (faulted \/ uowPc' = "idle")
    /\ UNCHANGED <<busVars, consVars, taskVars, repoVars, callVars, storeKind, stillPending, unbound, replayed, appendFailed, dbEvents, dbOutbox,
                   dbLedger, mode, cmdId, exc,
                   connection, txLedger, seen, aggs, nextEvent, handlerCalls>>

\* Variant of the transaction exit that issues COMMIT whatever it is passed.
CommitsAlways(raised, commit_ok) == commit_ok

\* asyncpg Transaction.__aexit__(exc_type, ...): ROLLBACK when an exception is
\* passed in, COMMIT otherwise, and the COMMIT can fail.
TransactionCommits(raised, commit_ok) == ~raised /\ commit_ok

\* Exit of the transaction context: rollback when an exception is passed in,
\* COMMIT otherwise; a failing COMMIT leaves nothing behind either.
\* PostgresUnitOfWork.__aexit__, lines 97-109, unbinds the connection and resets
\* the repository first.
ExitFinish ==
    /\ uowPc = "finish"
    /\ \E commit_ok \in BOOLEAN :
        IF TransactionCommits(exc, commit_ok)
        THEN /\ dbEvents' = dbEvents \o txEvents
             /\ dbOutbox' = dbOutbox \o txOutbox
             /\ dbLedger' = dbLedger \cup txLedger
             /\ txState' = "committed"
             /\ lastExit' = "committed"
             /\ stillPending' = EventIds(PendingOfSeen(seen))
             /\ UNCHANGED faulted
        ELSE /\ exc \/ ~commit_ok
             /\ (exc => commit_ok)
             /\ UNCHANGED <<dbEvents, dbOutbox, dbLedger>>
             /\ txState' = "rolled_back"
             /\ lastExit' = "rolled_back"
             /\ faulted' = (faulted \/ ~commit_ok)
             /\ UNCHANGED stillPending
    /\ lastWritten' = RowIds(txEvents)
    /\ txEvents' = << >>
    /\ txOutbox' = << >>
    /\ txLedger' = {}
    /\ connection' = FALSE
    /\ seen' = << >>
    /\ aggs' = [i \in InstIds |-> NoAgg]
    /\ runs' = IF mode = "command" THEN [runs EXCEPT ![cmdId] = @ + 1] ELSE runs
    /\ uowPc' = "idle"
    /\ UNCHANGED <<busVars, consVars, taskVars, repoVars, callVars, storeKind, unbound, replayed, appendFailed, mode, cmdId, exc,
                   nextEvent, handlerCalls, leakedTx>>

\* The methods of PostgresEventStore, PostgresOutbox and
\* PostgresProcessedMessageRepository that begin with `if self.connection is None`.
GuardedOps == {"_save", "_get", "send", "is_processed", "mark_processed"}

\* raise Exception("This repository requires a connection object before save"),
\* and the like in the outbox and the ledger: the class raised is Exception.
RaisedWithoutConnection == "Exception"

\* A guarded method is called while the connection field is None, before
\* __aenter__ or after __aexit__: it raises before it touches the connection.
CallUnbound(op) ==
    /\ storeKind = "Postgres"
    /\ uowPc = "idle"
    /\ ~connection
    /\ unbound' = [op |-> op, raised |-> RaisedWithoutConnection]
    /\ UNCHANGED <<busVars, consVars, taskVars, repoVars, callVars, storeKind, stillPending, replayed, faulted,
                   appendFailed, dbEvents, dbOutbox, dbLedger, uowPc, mode, cmdId, exc,
                   connection, txState, txEvents, txOutbox, txLedger, seen, aggs,
                   nextEvent, handlerCalls, runs, leakedTx, lastExit, lastWritten>>

\* The process stops: the server rolls back every transaction that is open.
Crash ==
    /\ uowPc # "idle" \/ leakedTx > 0
    /\ txState' = IF txState = "open" THEN "rolled_back" ELSE txState
    /\ lastExit' = "crashed"
    /\ lastWritten' = RowIds(txEvents)
    /\ txEvents' = << >>
    /\ txOutbox' = << >>
    /\ txLedger' = {}
    /\ connection' = FALSE
    /\ seen' = << >>
    /\ aggs' = [i \in InstIds |-> NoAgg]
    /\ leakedTx' = 0
    /\ uowPc' = "idle"
    /\ faulted' = TRUE
    /\ UNCHANGED <<busVars, consVars, taskVars, repoVars, callVars, storeKind, stillPending, unbound, replayed, appendFailed, dbEvents, dbOutbox,
                   dbLedger, mode, cmdId, exc,
                   nextEvent, handlerCalls, runs>>

StoreNext ==
    \/ \E m \in {"direct", "command"}, c \in CommandIds \cup {"None"} : UowEnter(m, c)
    \/ PipelineCheck
    \/ \E stream \in StreamIds : Create(stream)
    \/ \E stream \in StreamIds : Get(stream)
    \/ \E i \in InstIds, choice \in EventChoices : NewEvent(i, choice)
    \/ \E i \in InstIds : Save(i)
    \/ HandlerRaise
    \/ HandlerReturn
    \/ ExitSend
    \/ ExitFinish
    \/ \E op \in GuardedOps : CallUnbound(op)
    \/ Crash

\* ===========================================================================
\* PART 3 - stream consumer loop (cosmos/contrib/redis.py,
\*          microservices/contrib/redis.py, contrib/tortoise/consumer.py)
\* ===========================================================================
MaxRec == 3         \* records appended to the broker stream
MaxConsHandlers == 2 \* handlers registered for the consumed event

BusKinds == {"cosmos", "microservices"}

\* Consumer.create: acked_id="0", the zero value of a new consumer. Record ids
\* are the positions 1, 2, ... of the stream; 0 is before the first record.
NewAckedId == 0

\* No acked_id written in the transaction.
NoAck == 0 - 1

\* Variant of create that starts a consumer that is not retroactive at the end
\* of the stream.
CreateAtEnd(flag, len) == IF flag THEN NewAckedId ELSE len

\* Consumer.create(stream=stream, name=c.name, retroactive=c.retroactive): the
\* acked_id of the new consumer; the flag is stored and nothing reads it.
ConsumerCreate(flag, len) == NewAckedId

\* consume() has added the consumer of the configuration to the repository and
\* read it back; the stream can hold records produced before that.
ConsInit ==
    /\ busKind \in BusKinds
    /\ brokerLen \in 0..MaxRec
    /\ retroactive \in BOOLEAN
    /\ ackedDb = ConsumerCreate(retroactive, brokerLen)
    /\ consPc = "top"
    /\ consumer = ackedDb
    /\ firstOffset = NoAck
    /\ slept = TRUE
    /\ response = 0
    /\ txAck = NoAck
    /\ failedRec = 0
    /\ redeliver = 0
    /\ redelivered = FALSE
    /\ everFailed = FALSE
    /\ lastFailure = "none"

\* Variant of the read that returns the newest record after the offset.
XReadNewest(len, offset) == IF offset < len THEN len ELSE 0

\* Variant of the read that compares the offset for inequality.
XReadNotEqual(len, offset) ==
    IF \E r \in 1..len : r # offset
    THEN CHOOSE r \in 1..len : r # offset /\ \A q \in 1..len : q # offset => r <= q
    ELSE 0

\* read_stream: client.xread({stream: consumer.acked_id}, count=1) and the first
\* message of the response: the oldest record after the offset, None (0) when
\* the stream has none.
XRead(len, offset) == IF offset < len THEN offset + 1 ELSE 0

\* bus.handle(event) as the loop sees it. cosmos: _handle_event catches the
\* exception of each handler, logs event.message_id and continues, handle
\* returns. microservices: the except block evaluates event.id, which Message
\* does not have, so the first failing handler ends handle with AttributeError.
BusHandle(kind, outcomes) ==
    IF kind = "microservices" /\ ~EventHasIdAttribute
       /\ \E k \in DOMAIN outcomes : outcomes[k] = "raise"
    THEN "raised"
    ELSE "returned"

\* Variant of the loop without the except clause: the exception ends the task.
LoopTerminates ==
    /\ txAck' = NoAck
    /\ consPc' = "terminated"
    /\ everFailed' = TRUE

\* A step of the try block raised: the with statement rolls the transaction
\* back, `except Exception` logs, the while loop starts over.
LoopException ==
    /\ txAck' = NoAck
    /\ consPc' = "top"
    /\ everFailed' = TRUE

\* loop_event_consumer, `async with uow_factory.get_uow() as uow`: a unit of
\* work is created and entered; the database can refuse.
ConsEnter ==
    /\ consPc = "top"
    /\ \E ok \in BOOLEAN :
        IF ok THEN /\ consPc' = "entered"
                   /\ txAck' = NoAck
                   /\ lastFailure' = "none"
                   /\ UNCHANGED everFailed
        ELSE LoopException /\ lastFailure' = "database"
    /\ failedRec' = 0
    /\ response' = 0
    /\ UNCHANGED <<busVars, storeVars, taskVars, repoVars, callVars, busKind, slept, retroactive, firstOffset, brokerLen, ackedDb, consumer,
                   redeliver, redelivered>>

\* TortoiseConsumerRepository._get: the row as the transaction sees it.
LoadConsumer(committed, memory) == committed

\* consumer = await uow.repository.get(id=consumer.id)
ConsGet ==
    /\ consPc = "entered"
    /\ \E ok \in BOOLEAN :
        IF ok THEN /\ consumer' = LoadConsumer(ackedDb, consumer)
                   /\ consPc' = "loaded"
                   /\ UNCHANGED <<txAck, everFailed, lastFailure>>
        ELSE LoopException /\ lastFailure' = "database" /\ UNCHANGED consumer
    /\ UNCHANGED <<busVars, storeVars, taskVars, repoVars, callVars, busKind, slept, retroactive, firstOffset, brokerLen, ackedDb, response,
                   failedRec, redeliver, redelivered>>

\* consumer_response = await event_consume(consumer=consumer): the broker can be
\* unreachable and the hydration of the record can fail, both raise.
ConsConsume ==
    /\ consPc = "loaded"
    /\ \E outcome \in {"ok", "broker", "decode"} :
        IF outcome = "ok"
        THEN LET r == XRead(brokerLen, consumer) IN
             /\ response' = r
             /\ consPc' = IF r = 0 THEN "sleep" ELSE "consumed"
             /\ redelivered' = (redelivered \/ (redeliver # 0 /\ r = redeliver))
             /\ redeliver' = 0
             /\ firstOffset' = IF firstOffset = NoAck THEN consumer ELSE firstOffset
             /\ UNCHANGED <<txAck, everFailed, lastFailure>>
        ELSE /\ LoopException
             /\ lastFailure' = outcome
             /\ UNCHANGED <<response, redeliver, redelivered, firstOffset>>
    /\ slept' = FALSE
    /\ UNCHANGED <<busVars, storeVars, taskVars, repoVars, callVars, busKind, retroactive, brokerLen, ackedDb, consumer,
                   failedRec>>

\* await bus.handle(message=event): every handler registered for the event runs
\* (cosmos) or runs until one fails (microservices).
ConsHandle ==
    /\ consPc = "consumed"
    /\ \E n \in 0..MaxConsHandlers : \E outcomes \in [1..n -> {"ok", "raise"}] :
        /\ failedRec' = IF \E k \in 1..n : outcomes[k] = "raise" THEN response ELSE 0
        /\ IF BusHandle(busKind, outcomes) = "returned"
           THEN /\ consPc' = "handled"
                /\ UNCHANGED <<txAck, everFailed, lastFailure>>
           ELSE LoopException /\ lastFailure' = "handler"
    /\ UNCHANGED <<busVars, storeVars, taskVars, repoVars, callVars, busKind, slept, retroactive, firstOffset, brokerLen, ackedDb, consumer,
                   response, redeliver, redelivered>>

\* consumer.acked_id = message_id; await uow.repository.update(consumer)
ConsAck ==
    /\ consPc = "handled"
    /\ consumer' = response
    /\ \E ok \in BOOLEAN :
        IF ok THEN /\ txAck' = response
                   /\ consPc' = "acked"
                   /\ UNCHANGED <<everFailed, lastFailure>>
        ELSE LoopException /\ lastFailure' = "database"
    /\ UNCHANGED <<busVars, storeVars, taskVars, repoVars, callVars, busKind, slept, retroactive, firstOffset, brokerLen, ackedDb, response,
                   failedRec, redeliver, redelivered>>

\* Normal exit of the with block: COMMIT of the consumer row.
ConsCommit ==
    /\ consPc = "acked"
    /\ \E ok \in BOOLEAN :
        IF ok THEN /\ ackedDb' = txAck
                   /\ txAck' = NoAck
                   /\ consPc' = "sleep"
                   /\ UNCHANGED <<everFailed, lastFailure>>
        ELSE LoopException /\ lastFailure' = "database" /\ UNCHANGED ackedDb
    /\ UNCHANGED <<busVars, storeVars, taskVars, repoVars, callVars, busKind, slept, retroactive, firstOffset, brokerLen, consumer, response,
                   failedRec, redeliver, redelivered>>

\* await asyncio.sleep(3), the last statement of the try block.
ConsSleep ==
    /\ consPc = "sleep"
    /\ consPc' = "top"
    /\ slept' = TRUE
    /\ UNCHANGED <<busVars, storeVars, taskVars, repoVars, callVars, busKind, retroactive, firstOffset, brokerLen, ackedDb, consumer,
                   response, txAck, failedRec, redeliver, redelivered, everFailed,
                   lastFailure>>

\* The process stops; what the open transaction wrote is gone. A record that
\* was dispatched and whose ack is not committed is owed a redelivery.
ConsStop ==
    /\ consPc # "stopped"
    /\ redeliver' = IF consPc \in {"handled", "acked"} THEN response ELSE redeliver
    /\ txAck' = NoAck
    /\ consPc' = "stopped"
    /\ everFailed' = TRUE
    /\ UNCHANGED <<busVars, storeVars, taskVars, repoVars, callVars, busKind, slept, retroactive, firstOffset, brokerLen, ackedDb, consumer,
                   response, failedRec, redelivered, lastFailure>>

\* consume() after a restart: the consumers are read from the repository and a
\* loop is started for each.
ConsRestart ==
    /\ consPc = "stopped"
    /\ consumer' = ackedDb
    /\ response' = 0
    /\ failedRec' = 0
    /\ consPc' = "top"
    /\ lastFailure' = "none"
    /\ slept' = TRUE
    /\ UNCHANGED <<busVars, storeVars, taskVars, repoVars, callVars, busKind, retroactive, firstOffset, brokerLen, ackedDb, txAck,
                   redeliver, redelivered, everFailed>>

\* A producer appends a record to the stream.
BrokerAppend ==
    /\ brokerLen < MaxRec
    /\ brokerLen' = brokerLen + 1
    /\ UNCHANGED <<busVars, storeVars, taskVars, repoVars, callVars, busKind, slept, retroactive, firstOffset, ackedDb, consPc, consumer,
                   response, txAck, failedRec, redeliver, redelivered, everFailed,
                   lastFailure>>

ConsNext ==
    \/ ConsEnter
    \/ ConsGet
    \/ ConsConsume
    \/ ConsHandle
    \/ ConsAck
    \/ ConsCommit
    \/ ConsSleep
    \/ ConsStop
    \/ ConsRestart
    \/ BrokerAppend

\* ===========================================================================
\* PART 4. Concurrent units of work on one stream
\* ===========================================================================
\* Tasks that each resolve a unit of work from the container, enter it, load
\* the aggregate of one stream, append one event and leave. Every await is a
\* point where another task can run.
MaxTasks == 2
MaxConns == 2

Tasks == 1..MaxTasks
Conns == 1..MaxConns
UowObjs == 1..MaxTasks
TaskStream == "s1"

\* The event the stream holds before the tasks start, and the one task t appends.
FirstEvent == [message_id |-> 1, type |-> "Set", amount |-> 1]
TaskEvent(t) == [message_id |-> 1 + t, type |-> "Add", amount |-> 2]

Unbound == [outbox |-> 0, repository |-> 0, processed_messages |-> 0]

TaskInit ==
    /\ uniqueVersion \in BOOLEAN
    /\ eventsTable = <<RowOf(TaskStream, FirstEvent, 0)>>
    /\ pool = Conns
    /\ connTx = [c \in Conns |-> << >>]
    /\ made = 0
    /\ stack = [u \in UowObjs |-> 0]
    /\ binding = [u \in UowObjs |-> Unbound]
    /\ entered = [u \in UowObjs |-> 0]
    /\ taskPc = [t \in Tasks |-> "start"]
    /\ taskUow = [t \in Tasks |-> 0]
    /\ taskExc = [t \in Tasks |-> FALSE]
    /\ base = [t \in Tasks |-> NoVersion]

\* Variant of the container with unit_of_work = providers.Singleton(...).
ResolveSingleton(built) == 1

\* unit_of_work = providers.Factory(PostgresUnitOfWork, ...), with repository,
\* outbox and processed_messages Factory providers too: every resolution builds
\* a new unit of work with parts of its own.
Resolve(built) == built + 1

\* uow: UnitOfWork = Provide["unit_of_work"]
TaskResolve(t) ==
    /\ taskPc[t] = "start"
    /\ taskUow' = [taskUow EXCEPT ![t] = Resolve(made)]
    /\ made' = made + 1
    /\ taskPc' = [taskPc EXCEPT ![t] = "resolved"]
    /\ UNCHANGED <<busVars, storeVars, consVars, repoVars, callVars, uniqueVersion, eventsTable, pool,
                   connTx, stack, binding, entered, taskExc, base>>

\* PostgresUnitOfWork.__aenter__: pool.acquire() hands out a connection nobody
\* holds (and waits while there is none), connection.transaction() begins, the
\* three parts get the connection, the exit callbacks go to self._stack.
\* AsyncUnitOfWorkPostgres has a repository only.
TaskEnter(t) ==
    /\ taskPc[t] = "resolved"
    /\ pool # {}
    /\ LET u == taskUow[t]
           c == CHOOSE x \in pool : \A y \in pool : x <= y IN
        /\ pool' = pool \ {c}
        /\ connTx' = [connTx EXCEPT ![c] = << >>]
        /\ binding' = [binding EXCEPT ![u] =
                          IF storeKind = "Postgres"
                          THEN [outbox |-> c, repository |-> c, processed_messages |-> c]
                          ELSE [outbox |-> 0, repository |-> c, processed_messages |-> 0]]
        /\ stack' = [stack EXCEPT ![u] = c]
        /\ entered' = [entered EXCEPT ![u] = @ + 1]
    /\ taskPc' = [taskPc EXCEPT ![t] = "active"]
    /\ UNCHANGED <<busVars, storeVars, consVars, repoVars, callVars, uniqueVersion, eventsTable, made,
                   taskUow, taskExc, base>>

\* What the transaction of connection c reads: committed rows and its own.
VisibleTo(c) == eventsTable \o connTx[c]

\* repository.get: _get on the connection of the repository, then replay; the
\* version of the aggregate is the position of its last event.
TaskLoad(t) ==
    /\ taskPc[t] = "active"
    /\ LET c == binding[taskUow[t]].repository IN
        IF c = 0
        THEN /\ taskExc' = [taskExc EXCEPT ![t] = TRUE]
             /\ taskPc' = [taskPc EXCEPT ![t] = "exit"]
             /\ UNCHANGED base
        ELSE /\ base' = [base EXCEPT ![t] =
                    Replay(TaskStream,
                           HydrateAll(StreamRows(VisibleTo(c), TaskStream))).version]
             /\ taskPc' = [taskPc EXCEPT ![t] = "loaded"]
             /\ UNCHANGED taskExc
    /\ UNCHANGED <<busVars, storeVars, consVars, repoVars, callVars, uniqueVersion, eventsTable, pool,
                   connTx, made, stack, binding, entered, taskUow>>

\* A row with the same stream_id and version: a unique constraint compares
\* values, and a NULL is equal to nothing.
SameVersion(a, b) ==
    a.stream_id = b.stream_id /\ a.version # Null /\ a.version = b.version

\* new_event, then repository.save: _save numbers the event after the loaded
\* version and INSERTs it. Neither _save compares versions. When the table has
\* the unique constraint, a committed row with the same version makes the INSERT
\* fail, and one in a transaction that is still open makes it wait.
TaskAppend(t) ==
    /\ taskPc[t] = "loaded"
    /\ LET c == binding[taskUow[t]].repository
           row == RowOf(TaskStream, TaskEvent(t), base[t] + 1) IN
        IF c = 0
        THEN /\ taskExc' = [taskExc EXCEPT ![t] = TRUE]
             /\ UNCHANGED connTx
        ELSE /\ uniqueVersion =>
                    \A d \in Conns \ {c} : \A k \in 1..Len(connTx[d]) :
                        ~SameVersion(connTx[d][k], row)
             /\ IF uniqueVersion
                   /\ \E k \in 1..Len(VisibleTo(c)) : SameVersion(VisibleTo(c)[k], row)
                THEN /\ taskExc' = [taskExc EXCEPT ![t] = TRUE]
                     /\ UNCHANGED connTx
                ELSE /\ connTx' = [connTx EXCEPT ![c] = Append(@, row)]
                     /\ UNCHANGED taskExc
    /\ taskPc' = [taskPc EXCEPT ![t] = "exit"]
    /\ UNCHANGED <<busVars, storeVars, consVars, repoVars, callVars, uniqueVersion, eventsTable, pool,
                   made, stack, binding, entered, taskUow, base>>

\* __aexit__: the parts are unbound, self._stack.__aexit__ commits or rolls back
\* the transaction and gives the connection back to the pool.
TaskExit(t) ==
    /\ taskPc[t] = "exit"
    /\ LET u == taskUow[t]
           c == stack[u] IN
        /\ binding' = [binding EXCEPT ![u] = Unbound]
        /\ stack' = [stack EXCEPT ![u] = 0]
        /\ entered' = [entered EXCEPT ![u] = @ - 1]
        /\ IF c = 0
           THEN /\ UNCHANGED <<eventsTable, connTx, pool>>
                /\ taskPc' = [taskPc EXCEPT ![t] = "lost"]
           ELSE /\ eventsTable' = IF TransactionCommits(taskExc[t], TRUE)
                                  THEN eventsTable \o connTx[c] ELSE eventsTable
                /\ connTx' = [connTx EXCEPT ![c] = << >>]
                /\ pool' = pool \cup {c}
                /\ taskPc' = [taskPc EXCEPT ![t] =
                                 IF TransactionCommits(taskExc[t], TRUE)
                                 THEN "committed" ELSE "rolled_back"]
    /\ UNCHANGED <<busVars, storeVars, consVars, repoVars, callVars, uniqueVersion, made, taskUow,
                   taskExc, base>>

TaskNext ==
    \/ \E t \in Tasks : TaskResolve(t)
    \/ \E t \in Tasks : TaskEnter(t)
    \/ \E t \in Tasks : TaskLoad(t)
    \/ \E t \in Tasks : TaskAppend(t)
    \/ \E t \in Tasks : TaskExit(t)

\* C21: a command without a registered handler does not make handle raise; once
\* handle has completed, an error is in the log, no handler was invoked and
\* nothing was put on the queue besides the command itself.
NoHandlerFor(m) == IsCommand(m) /\ command_handlers[m.type] = None

C21_MissingCommandHandler ==
    NoHandlerFor(seed) =>
        /\ busPc # "raised"
        /\ busPc = "done" =>
              /\ errors # {}
              /\ \A h \in HandlerIds : invoked[h] = 0
              /\ Range(enqueued) \subseteq {seed.message_id}

C21_Witness == NoHandlerFor(seed) /\ busPc = "done" /\ busKind = "cosmos"

Occurrences(h, hs) == Cardinality({k \in 1..Len(hs) : hs[k] = h})

\* How often handler h is registered for the messages ids, summed.
RECURSIVE DueInvocations(_, _)
DueInvocations(h, ids) ==
    IF ids = << >> THEN 0
    ELSE Occurrences(h, HandlersOf(created[Head(ids)])) + DueInvocations(h, Tail(ids))

\* The handlers of a list that return, in the order of the list.
Returning(hs) == LET Returns_(h) == ~behaviour[h].raises IN SelectSeq(hs, Returns_)

\* C22: when handle has ended, every handler was invoked once for each handled
\* message it is registered for and not otherwise, the handlers of a message that
\* returned did so in registration order, and an event for which no handler is
\* registered did not make handle raise.
C22_RegisteredHandlersInvokedOnce ==
    busPc \in {"done", "raised"} =>
        /\ \A h \in HandlerIds : invoked[h] = DueInvocations(h, Processed)
        /\ \A k \in 1..Len(Processed) :
              ranFor[Processed[k]] = Returning(HandlersOf(created[Processed[k]]))
        /\ (IsEvent(seed) /\ \A k \in 1..Len(Processed) :
                                HandlersOf(created[Processed[k]]) = << >>)
              => busPc = "done"

\* ===========================================================================
\* PART 5. Repository bookkeeping and event collection
\* ===========================================================================
\* AsyncRepository (microservices/repository.py, _seen is a set) and
\* AggregateRepository (cosmos/repository.py, _seen is a list) over an abstract
\* persistence (_get, _get_list, _add, _update, _save of the subclass), and
\* collect_events of the unit of work that owns the repository.
MaxAggs == 2
MaxMarks == 3
MaxPending == 2

AggIds == 1..MaxAggs
RepoKinds == {"AsyncRepository", "AggregateRepository"}

\* Neither Aggregate (microservices/domain.py 34-81) nor AggregateRoot
\* (cosmos/domain.py 144-171) defines has_events or get_events; they have the
\* events property and new_event only.
AggregateHasEventsAttribute == FALSE

NoCollect == [done |-> FALSE, raised |-> FALSE, events |-> << >>, expected |-> << >>]

RepoInit ==
    /\ repoKind \in RepoKinds
    /\ repoSeen = << >>
    /\ pending = [a \in AggIds |-> << >>]
    /\ handed = {}
    /\ refused = {}
    /\ nextPending = 1
    /\ collected = NoCollect

\* self._seen.add(agg) on a set: an element that is present is not added again.
SetAdd(s, a) == IF a \in Range(s) THEN s ELSE Append(s, a)

Mark(s, a) == IF repoKind = "AsyncRepository" THEN SetAdd(s, a) ELSE MarkSeen(s, a)

RECURSIVE MarkAll(_, _)
MarkAll(s, list) ==
    IF list = << >> THEN s ELSE MarkAll(Mark(s, Head(list)), Tail(list))

\* Variant that notes the aggregate before the persistence step is awaited.
MarkedAlways(ok, s, a) == Mark(s, a)

\* add / update / save: `await self._add(aggregate)` comes first, the aggregate
\* is noted as seen after it; when the persistence step raises, the second
\* statement is not reached.
MarkedAfter(ok, s, a) == IF ok THEN Mark(s, a) ELSE s

\* get: agg = await self._get(id=id); if agg: mark; return agg
RepoGet(a) ==
    /\ Len(repoSeen) < MaxMarks
    /\ \E outcome \in {"found", "none", "raise"} :
        /\ repoSeen' = IF outcome = "found" THEN Mark(repoSeen, a) ELSE repoSeen
        /\ handed' = IF outcome = "found" THEN handed \cup {a} ELSE handed
    /\ collected' = NoCollect
    /\ UNCHANGED <<busVars, storeVars, consVars, taskVars, callVars, repoKind, pending,
                   refused, nextPending>>

\* The lists _get_list can return: the aggregates in ascending order.
RECURSIVE Ascending(_)
Ascending(set) ==
    IF set = {} THEN << >>
    ELSE LET least == CHOOSE x \in set : \A y \in set : x <= y IN
         <<least>> \o Ascending(set \ {least})

\* get_list: agg_list = await self._get_list(**kwargs); every element of a
\* non-empty list is marked.
RepoGetList(set) ==
    /\ Len(repoSeen) + Cardinality(set) <= MaxMarks
    /\ \E ok \in BOOLEAN :
        /\ repoSeen' = IF ok THEN MarkAll(repoSeen, Ascending(set)) ELSE repoSeen
        /\ handed' = IF ok THEN handed \cup set ELSE handed
    /\ collected' = NoCollect
    /\ UNCHANGED <<busVars, storeVars, consVars, taskVars, callVars, repoKind, pending,
                   refused, nextPending>>

\* AsyncRepository.add and update, AggregateRepository.save.
RepoWrite(a) ==
    /\ Len(repoSeen) < MaxMarks
    /\ \E ok \in BOOLEAN :
        /\ repoSeen' = MarkedAfter(ok, repoSeen, a)
        /\ handed' = IF ok THEN handed \cup {a} ELSE handed
        /\ refused' = IF ok THEN refused ELSE refused \cup {a}
    /\ collected' = NoCollect
    /\ UNCHANGED <<busVars, storeVars, consVars, taskVars, callVars, repoKind, pending,
                   nextPending>>

\* new_event on an aggregate, seen or not: self._events.append(event)
RepoNewEvent(a) ==
    /\ nextPending <= MaxPending
    /\ pending' = [pending EXCEPT ![a] = Append(@, nextPending)]
    /\ nextPending' = nextPending + 1
    /\ collected' = NoCollect
    /\ UNCHANGED <<busVars, storeVars, consVars, taskVars, callVars, repoKind, repoSeen,
                   handed, refused>>

\* What a full iteration of the generator yields from the aggregates `list`:
\* `while aggregate.has_events: yield aggregate.get_events().pop(0)`.
RECURSIVE Drain(_, _)
Drain(list, buffers) ==
    IF list = << >> THEN << >>
    ELSE buffers[Head(list)]
         \o Drain(Tail(list), [buffers EXCEPT ![Head(list)] = << >>])

\* list(uow.collect_events()): AsyncUnitOfWork.collect_events and
\* SimpleCollector.collect. The first aggregate of repository.seen is asked for
\* has_events.
RepoCollect ==
    /\ LET fails == repoSeen # << >> /\ ~AggregateHasEventsAttribute IN
        /\ collected' = [done |-> TRUE, raised |-> fails,
                         events |-> IF fails THEN << >> ELSE Drain(repoSeen, pending),
                         expected |-> Drain(repoSeen, pending)]
        /\ pending' = IF fails THEN pending
                      ELSE [a \in AggIds |->
                              IF a \in Range(repoSeen) THEN << >> ELSE pending[a]]
    /\ UNCHANGED <<busVars, storeVars, consVars, taskVars, callVars, repoKind, repoSeen,
                   handed, refused, nextPending>>

RepoNext ==
    \/ \E a \in AggIds : RepoGet(a)
    \/ \E set \in SUBSET AggIds : RepoGetList(set)
    \/ \E a \in AggIds : RepoWrite(a)
    \/ \E a \in AggIds : RepoNewEvent(a)
    \/ RepoCollect

\* ===========================================================================
\* PART 6. Concurrent handle calls on one bus
\* ===========================================================================
\* handle_no_await starts handle as a task, so several handle calls run on one
\* MessageBus (microservices/message_bus.py) and interleave wherever a handler
\* awaits. Every event has one handler; each invocation is given a unit of
\* work by AsyncUnitOfWorkFactory.get_uow and loads aggregates through it.
MaxCalls == 2       \* handle calls in flight
MaxProduced == 2    \* events the handlers raise, over all calls
MaxLoads == 1       \* aggregates one handler invocation loads

Calls == 1..MaxCalls

\* message_id values the seeds can carry; two seeds can carry the same one.
SeedIds == 1..MaxCalls

\* Repository objects alive at one time: one per running handler.
RepoObjs == 1..MaxCalls

\* seed_id is no key of self._queue.
NoQueue == [present |-> FALSE, list |-> << >>]

\* A message of this part: its message_id and, for the bookkeeping of the
\* properties, the call whose seed it descends from.
NoCallMessage == [message_id |-> 0, owner |-> 0]

CallInit ==
    /\ busQueue = [i \in SeedIds |-> NoQueue]
    /\ callPc = [c \in Calls |-> "idle"]
    /\ callSeed = [c \in Calls |-> 0]
    /\ callSeq = [c \in Calls |-> << >>]
    /\ callMsg = [c \in Calls |-> NoCallMessage]
    /\ callRepo = [c \in Calls |-> 0]
    /\ heapSeen = [r \in RepoObjs |-> << >>]
    /\ touched = [c \in Calls |-> {}]
    /\ produced = 0

\* The repositories of the handler invocations of the other calls.
LiveRepos(c) == {callRepo[d] : d \in {e \in Calls \ {c} : callPc[e] = "handler"}}

\* Variant of get_uow that hands every unit of work the same repository.
SameRepository(live) == CHOOSE r \in RepoObjs : \A q \in RepoObjs : r <= q

\* get_uow: `self._uow_cls(repository=self._repo_cls(**self._repository_kwargs), ...)`
\* constructs a repository, an object no other unit of work holds.
NewRepository(live) ==
    CHOOSE r \in RepoObjs \ live : \A q \in RepoObjs \ live : r <= q

\* The handler loop reaches message m: it is recorded in message_sequence, a
\* unit of work is made for the handler (AggregateRepository.__init__ sets
\* self._seen = []) and the handler is awaited.
Invoke(c, m) ==
    LET r == NewRepository(LiveRepos(c)) IN
    /\ callMsg' = [callMsg EXCEPT ![c] = m]
    /\ callSeq' = [callSeq EXCEPT ![c] = Append(@, m)]
    /\ callRepo' = [callRepo EXCEPT ![c] = r]
    /\ heapSeen' = [heapSeen EXCEPT ![r] = << >>]
    /\ touched' = [touched EXCEPT ![c] = {}]
    /\ callPc' = [callPc EXCEPT ![c] = "handler"]

\* The call is over: its unit of work and repository are dropped.
Leave(c, how) ==
    /\ callPc' = [callPc EXCEPT ![c] = how]
    /\ callRepo' = [callRepo EXCEPT ![c] = 0]
    /\ heapSeen' = [heapSeen EXCEPT ![callRepo[c]] =
                       IF callRepo[c] \in LiveRepos(c) THEN @ ELSE << >>]
    /\ touched' = [touched EXCEPT ![c] = {}]
    /\ UNCHANGED <<callSeq, callMsg>>

\* handle, lines 77-96, up to the first await of the handler:
\* self._queue[seed_id] = [message], the loop pops it and dispatches it.
CallHandle(c, id) ==
    /\ callPc[c] = "idle"
    /\ busQueue' = [busQueue EXCEPT ![id] = [present |-> TRUE, list |-> << >>]]
    /\ callSeed' = [callSeed EXCEPT ![c] = id]
    /\ Invoke(c, [message_id |-> id, owner |-> c])
    /\ UNCHANGED <<busVars, storeVars, consVars, taskVars, repoVars, produced>>

\* The running handler loads an aggregate: uow.repository.get marks it seen.
CallHandlerLoads(c, a) ==
    /\ callPc[c] = "handler"
    /\ Cardinality(touched[c]) < MaxLoads
    /\ heapSeen' = [heapSeen EXCEPT ![callRepo[c]] = MarkSeen(@, a)]
    /\ touched' = [touched EXCEPT ![c] = @ \cup {a}]
    /\ UNCHANGED <<busVars, storeVars, consVars, taskVars, repoVars, busQueue, callPc,
                   callSeed, callSeq, callMsg, callRepo, produced>>

\* The handler returns after its aggregates raised n events:
\* self._queue[seed_id].extend(uow.collect_events()) looks the key up again
\* (KeyError when it is gone, which ends the call), then `while
\* self._queue[seed_id]` either pops the next message and dispatches it or
\* leaves the loop, `del self._queue[seed_id]`, return message_sequence.
CallHandlerReturns(c, n) ==
    /\ callPc[c] = "handler"
    /\ produced + n <= MaxProduced
    /\ produced' = produced + n
    /\ LET id == callSeed[c]
           new == [k \in 1..n |-> [message_id |-> MaxCalls + produced + k,
                                   owner |-> callMsg[c].owner]] IN
        IF ~busQueue[id].present
        THEN /\ Leave(c, "raised")
             /\ UNCHANGED busQueue
        ELSE LET q == Extend(busQueue[id].list, new) IN
             IF q = << >>
             THEN /\ busQueue' = [busQueue EXCEPT ![id] = NoQueue]
                  /\ Leave(c, "done")
             ELSE /\ busQueue' = [busQueue EXCEPT ![id].list = Tail(q)]
                  /\ Invoke(c, Head(q))
    /\ UNCHANGED <<busVars, storeVars, consVars, taskVars, repoVars, callSeed>>

CallNext ==
    \/ \E c \in Calls, id \in SeedIds : CallHandle(c, id)
    \/ \E c \in Calls, a \in AggIds : CallHandlerLoads(c, a)
    \/ \E c \in Calls, n \in 0..1 : CallHandlerReturns(c, n)

\* ---------------------------------------------------------------------------
\* Specifications
\* ---------------------------------------------------------------------------
vars == <<busVars, storeVars, consVars, taskVars, repoVars, callVars>>

\* Each part is explored with the other parts at rest.
BusIdle ==
    /\ BusInit
    /\ event_publish = "none"
    /\ domain_arg = "Domain"
    /\ event_handlers = [t \in EventStreams |-> << >>]
    /\ command_handlers = [t \in CommandTypes |-> None]
    /\ behaviour = [h \in HandlerIds |-> [raises |-> FALSE, out |-> << >>]]

StoreIdle == storeKind = "Postgres" /\ StoreInit

TaskIdle == uniqueVersion = FALSE /\ TaskInit

RepoIdle == repoKind = "AggregateRepository" /\ RepoInit

ConsIdle == busKind = "cosmos" /\ retroactive = TRUE /\ brokerLen = 0 /\ ConsInit

\* The message bus.
Init ==
    /\ retroactive = TRUE /\ brokerLen = 0
    /\ BusInit /\ StoreIdle /\ ConsInit /\ TaskIdle /\ RepoIdle /\ CallInit
    \* the constructor of the cosmos bus takes neither a domain nor a publisher
    /\ busKind = "cosmos" => (event_publish = "none" /\ domain_arg = "Domain")

Next == BusNext

Spec == Init /\ [][Next]_vars

\* The unit of work, the event stores and the command wrapper.
StoreSpecInit == BusIdle /\ StoreInit /\ ConsIdle /\ TaskIdle /\ RepoIdle /\ CallInit

StoreSpec == StoreSpecInit /\ [][StoreNext]_vars

\* The consumer loop.
ConsumerSpecInit == BusIdle /\ StoreIdle /\ ConsInit /\ TaskIdle /\ RepoIdle /\ CallInit

ConsumerSpec == ConsumerSpecInit /\ [][ConsNext]_vars

\* Concurrent units of work.
TaskSpecInit == BusIdle /\ StoreInit /\ ConsIdle /\ TaskInit /\ RepoIdle /\ CallInit

TaskSpec == TaskSpecInit /\ [][TaskNext]_vars

\* The repository and the collection of events.
RepoSpecInit == BusIdle /\ StoreIdle /\ ConsIdle /\ TaskIdle /\ RepoInit /\ CallInit

RepoSpec == RepoSpecInit /\ [][RepoNext]_vars

\* Concurrent handle calls.
CallSpecInit == BusIdle /\ StoreIdle /\ ConsIdle /\ TaskIdle /\ RepoIdle /\ CallInit

CallSpec == CallSpecInit /\ [][CallNext]_vars

\* ---------------------------------------------------------------------------
\* Properties of the unit of work, the stores and the command wrapper
\* ---------------------------------------------------------------------------
\* C3: when the command pipeline has run twice for one message id and nothing
\* failed on the way, the decorated handler was invoked exactly once; after the
\* first such run the ledger holds the id.
C3_PipelineIdempotent ==
    \A c \in CommandIds :
        /\ (runs[c] >= 1 /\ ~faulted /\ uowPc = "idle") => c \in dbLedger
        /\ (runs[c] >= 2 /\ ~faulted) => handlerCalls[c] = 1

\* C4: when an outbox INSERT fails during the exit of a unit of work that has
\* written event rows, the transaction is rolled back and none of these rows is
\* left, in the table or in an open transaction.
C4_SendFailureRollsBack ==
    (uowPc = "idle" /\ lastExit = "send_failed" /\ lastWritten # {}) =>
        /\ txState = "rolled_back"
        /\ lastWritten \cap RowIds(VisibleEvents) = {}

\* C6: the committed rows of every stream carry the versions 0, 1, ..., n-1 in
\* the order they were inserted, no gap and no duplicate.
C6_VersionsContiguous ==
    \A stream \in StreamIds :
        LET rows == StreamRows(dbEvents, stream) IN
        \A k \in 1..Len(rows) : rows[k].version = k - 1

\* C7: an aggregate that get returned has the state of the in-memory fold of
\* mutate over the events of its stream in the order they were appended.
C7_GetEqualsFold ==
    \A i \in LiveInst :
        aggs[i].loaded =>
            LET rows == StreamRows(VisibleEvents, aggs[i].stream_id)
                appended == SubSeq(rows, 1, aggs[i].version + 1) IN
            aggs[i].state = Fold(ZeroState, HydrateAll(appended))

\* C23: get never hands out an aggregate for a stream without event rows: no
\* loaded aggregate is the replay of an empty event list (version -1, zero state).
C23_GetNotFoundIsNone ==
    \A i \in LiveInst :
        aggs[i].loaded => aggs[i] # Replay(aggs[i].stream_id, << >>)

\* An aggregate the repository handed out (get) or was given (save) in the
\* running unit of work.
Touched(i) ==
    \/ aggs[i].loaded
    \/ \E k \in 1..Len(aggs[i].events) :
          aggs[i].events[k].message_id \in RowIds(txEvents)

\* C13: when the body of a PostgresUnitOfWork ended without an exception and the
\* exit has reached the exit of the transaction (the COMMIT), every pending event
\* of every aggregate that was loaded or saved in it is among the outbox rows of
\* the transaction.
C13_SeenEventsSentBeforeCommit ==
    (storeKind = "Postgres" /\ uowPc = "finish" /\ ~exc) =>
        \A i \in LiveInst :
            Touched(i) =>
                \A k \in 1..Len(aggs[i].events) :
                    aggs[i].events[k].message_id \in Range(txOutbox)

C13_Witness ==
    /\ storeKind = "Postgres"
    /\ uowPc = "finish"
    /\ ~exc
    /\ \E i \in LiveInst :
          aggs[i].loaded /\ aggs[i].events # << >> /\ txEvents = << >>

\* C14: when the body of a unit of work raised, the exit sends nothing to the
\* outbox and rolls the transaction back: no outbox row is written on the way to
\* the exit of the transaction, no transaction is left open, nothing is committed.
C14_FailureExitSendsNothing ==
    /\ (exc /\ uowPc = "finish") => txOutbox = << >>
    /\ (exc /\ uowPc = "idle") =>
          /\ txState = "rolled_back"
          /\ lastWritten \cap RowIds(dbEvents) = {}

\* C15: once an INSERT of _save has failed in a unit of work, no step of that
\* unit of work changes a table: neither the rows _save wrote before the failing
\* one nor any other row, outbox row or ledger entry written in it is committed.
C15_AppendAllOrNothing ==
    [][appendFailed =>
          (dbEvents' = dbEvents /\ dbOutbox' = dbOutbox /\ dbLedger' = dbLedger)]_vars

C15_Witness ==
    /\ appendFailed
    /\ uowPc = "idle"
    /\ lastExit = "rolled_back"
    /\ lastWritten # {}

\* C26: a step that raises an event appends it as the last element of the
\* buffer of one aggregate, keeps the earlier elements in their order and changes
\* no other field of that aggregate, no other aggregate, and neither seen nor any
\* row; an aggregate that comes into being by create has an empty buffer.
C26_NewEventAppends ==
    [][/\ nextEvent' # nextEvent =>
            /\ \E i \in LiveInst :
                  /\ Len(aggs'[i].events) = Len(aggs[i].events) + 1
                  /\ SubSeq(aggs'[i].events, 1, Len(aggs[i].events)) = aggs[i].events
                  /\ aggs'[i].events[Len(aggs'[i].events)].message_id = nextEvent
                  /\ aggs' = [aggs EXCEPT ![i].events = aggs'[i].events]
            /\ UNCHANGED <<seen, txEvents, txOutbox, txLedger, dbEvents, dbOutbox,
                           dbLedger>>
       /\ \A i \in InstIds :
            (aggs[i] = NoAgg /\ aggs'[i] # NoAgg /\ ~aggs'[i].loaded)
                => aggs'[i].events = << >>]_vars

C26_Witness == \E i \in LiveInst : Len(aggs[i].events) = 2 /\ ~aggs[i].loaded

EventIdsOf(events) == {events[k].message_id : k \in 1..Len(events)}

C30_ReplayInVersionOrder ==
    {replayed[k] : k \in 1..Len(replayed)} = 0..(Len(replayed) - 1)
        => \A k \in 1..Len(replayed) : replayed[k] = k - 1

\* C34: when the body of a PostgresUnitOfWork ended without an exception, the
\* list of events its exit hands to the outbox holds no event twice, also when
\* an aggregate went through the repository more than once.
C34_NoEventSentTwice ==
    (storeKind = "Postgres" /\ uowPc = "exit" /\ ~exc) =>
        LET sent == EventIds(PendingOfSeen(seen)) IN
        \A j, k \in 1..Len(sent) : sent[j] = sent[k] => j = k

\* C35: when no unit of work is between its enter and the end of its exit, no
\* connection of the pool is held and no transaction is open: every exit, the
\* ones that raise included, has released what the enter acquired.
C35_ExitReleasesConnection ==
    uowPc = "idle" => (leakedTx = 0 /\ ~connection /\ txState # "open")

\* C32: when a unit of work has saved, sent and committed the pending events of
\* the aggregates it saw, the pending buffers of those aggregates are empty, so
\* that nothing is left for a later save or exit to write or send again.
C32_FlushedBufferIsEmpty ==
    lastExit = "committed" => stillPending = << >>

\* C28: a call on the event store, the outbox or the ledger made while no
\* connection is bound raises ConfigurationError.
C28_UnboundRaisesConfigurationError ==
    unbound.op # "none" => unbound.raised = "ConfigurationError"

\* ---------------------------------------------------------------------------
\* Properties of the consumer loop
\* ---------------------------------------------------------------------------
\* C8: when the loop stopped after record R was dispatched to the bus and before
\* the advanced acked_id was committed, the next read after the restart returns
\* R: not another record and not None.
C8_Redelivery ==
    [][(redeliver # 0 /\ consPc = "loaded" /\ consPc' \in {"consumed", "sleep"})
          => response' = redeliver]_vars

C8_Witness == redelivered /\ consPc = "consumed" /\ brokerLen >= 2

\* C9: while a handler of the dispatched record has raised, the loop neither
\* sets acked_id to that record nor writes or commits it.
C9_NoAckAfterHandlerFailure ==
    failedRec # 0 =>
        /\ consumer # failedRec
        /\ txAck # failedRec
        /\ ackedDb # failedRec

\* C10: the committed acked_id of the consumer never decreases, whatever the
\* loop, the handlers, the broker and the process do.
C10_AckedMonotonic == [][ackedDb' >= ackedDb]_vars

C10_Witness == ackedDb >= 2 /\ everFailed /\ busKind = "microservices"

\* The positions of the try block and of the while statement.
LoopPositions == {"top", "entered", "loaded", "consumed", "handled", "acked", "sleep"}

\* C18: the loop is always at one of its positions unless the process was
\* stopped, and after a broker failure, a decode failure, a handler failure or a
\* database failure in an iteration it is at the top of the while statement, about
\* to begin the next iteration with the same consumer.
C18_LoopSurvivesExceptions ==
    /\ consPc \in LoopPositions \cup {"stopped"}
    /\ lastFailure # "none" => consPc \in {"top", "stopped"}

C18_Witness ==
    /\ lastFailure = "handler"
    /\ consPc = "top"
    /\ busKind = "microservices"

\* C33: between two consecutive reads of the stream by one run of the loop the
\* loop sleeps its fixed delay, also when the iteration of the first read ended
\* in an exception: no read is made while the sleep after the previous one is
\* still owed.
C33_BackoffBetweenReads ==
    [][(consPc = "loaded" /\ consPc' \in {"top", "sleep", "consumed"}) => slept]_vars

\* C29: a newly created Consumer has acked_id "0" whatever its retroactive
\* flag and whatever the stream already holds, so until its first read it sits
\* at offset 0, its first read asks the broker for the records after offset 0
\* and, on a stream that is not empty, the first record it is given is record 1.
C29_NewConsumerStartsAtZero ==
    /\ firstOffset = NoAck => (consumer = 0 /\ ackedDb = 0)
    /\ firstOffset # NoAck => firstOffset = 0
    /\ (consPc = "consumed" /\ ackedDb = 0) => response = 1

C29_Witness ==
    /\ ~retroactive
    /\ firstOffset = 0
    /\ brokerLen >= 2
    /\ consPc = "consumed"
    /\ response = 1

\* ---------------------------------------------------------------------------
\* Properties of concurrent units of work
\* ---------------------------------------------------------------------------
\* The event of task t is in the table.
Persisted(t) ==
    \E k \in 1..Len(eventsTable) : eventsTable[k].id = TaskEvent(t).message_id

\* C16: of two units of work that loaded the stream at the same version and both
\* appended, at most one commits, and no two committed rows of a stream carry the
\* same version.
C16_TakenVersionRefused ==
    /\ \A t1, t2 \in Tasks :
          (t1 # t2 /\ Persisted(t1) /\ Persisted(t2)) => base[t1] # base[t2]
    /\ \A j, k \in 1..Len(eventsTable) :
          j # k => ~SameVersion(eventsTable[j], eventsTable[k])

\* A unit of work with an open with block.
Active(u) == entered[u] > 0

\* C17: while a PostgresUnitOfWork is Active it has been entered once, its
\* outbox, its repository and its ledger hold the connection that its _stack
\* holds, that connection is not in the pool, and no other Active unit of work
\* holds it in its _stack or in one of its parts.
C17_OneConnectionPerUow ==
    storeKind = "Postgres" =>
        \A u \in UowObjs :
            Active(u) =>
                /\ entered[u] = 1
                /\ stack[u] \in Conns \ pool
                /\ binding[u] = [outbox |-> stack[u], repository |-> stack[u],
                                 processed_messages |-> stack[u]]
                /\ \A v \in UowObjs \ {u} :
                      Active(v) =>
                          stack[u] \notin {stack[v], binding[v].outbox,
                                           binding[v].repository,
                                           binding[v].processed_messages}

C17_Witness ==
    /\ storeKind = "Postgres"
    /\ \E u, v \in UowObjs : u # v /\ Active(u) /\ Active(v)
    /\ \E t1, t2 \in Tasks : t1 # t2 /\ taskPc[t1] = "exit" /\ taskPc[t2] = "loaded"

\* ---------------------------------------------------------------------------
\* Properties of the repository bookkeeping and of collect_events
\* ---------------------------------------------------------------------------
\* C24: the aggregates in seen are exactly those that a get or get_list returned
\* or that an add, update or save accepted; a new repository has none, a get
\* that finds nothing and a write that raised add none.
C24_SeenIsWhatPassedThrough == Range(repoSeen) = handed

C24_Witness ==
    /\ handed # {}
    /\ refused \ handed # {}
    /\ collected = NoCollect

\* C25: a full iteration of collect_events yields the pending events of the seen
\* aggregates, aggregate by aggregate in the order they were added, and leaves
\* the buffers of the seen aggregates empty, so that the next one yields nothing.
C25_CollectDrains ==
    collected.done =>
        /\ ~collected.raised
        /\ collected.events = collected.expected
        /\ \A a \in Range(repoSeen) : pending[a] = << >>

\* ---------------------------------------------------------------------------
\* Properties of concurrent handle calls
\* ---------------------------------------------------------------------------
\* C31: every handler invocation has a repository of its own: no two running
\* invocations hold the same repository object, and the seen collection of an
\* invocation's repository holds exactly the aggregates that invocation loaded,
\* whatever the other invocations do meanwhile.
C31_FreshRepositoryPerInvocation ==
    \A c \in Calls :
        callPc[c] = "handler" =>
            /\ Range(heapSeen[callRepo[c]]) = touched[c]
            /\ \A d \in Calls \ {c} :
                  callPc[d] = "handler" => callRepo[d] # callRepo[c]

C31_Witness ==
    /\ \A c \in Calls : callPc[c] = "handler" /\ touched[c] # {}
    /\ \E c, d \in Calls : touched[c] # touched[d]

\* C37: concurrent handle calls do not interfere, also when their seeds carry
\* the same message id: no call ends in an exception over the queue, a call
\* processes only messages that descend from its own seed, and when it returns
\* none of its messages waits in a queue.
C37_CallsDoNotInterfere ==
    \A c \in Calls :
        /\ callPc[c] # "raised"
        /\ \A k \in 1..Len(callSeq[c]) : callSeq[c][k].owner = c
        /\ callPc[c] = "done" =>
              \A i \in SeedIds : \A k \in 1..Len(busQueue[i].list) :
                  busQueue[i].list[k].owner # c
====
